---- MODULE Spec2Model ----
(***************************************************************************)
(* Model of the conversion-and-execution engine of mcp-swagger-server:    *)
(* the operation filter (mcp/utils.go), tool-name derivation and tool     *)
(* registration (mcp/server.go, mcp/lib.go), the HTTP front-end           *)
(* (mcp/http_transport.go) and the request builder.                       *)
(*                                                                         *)
(* Go strings are modelled as sequences of one-character strings, so that *)
(* strings.ReplaceAll, strings.ToLower, strings.Contains, strings.Split   *)
(* and filepath.Match are computed character by character.                *)
(***************************************************************************)
EXTENDS Integers, Sequences, FiniteSets, TLC

VARIABLES
    filter,     \* Config.Filter (*APIFilter; isNil models the nil pointer)
    swagger,    \* Config.SwaggerSpec: the operations of the specification
    transport,  \* Config.Transport: "stdio" or "http"
    phase,      \* "config", then "built" (New returned), then "serving" (Run)
    tools,      \* the tool table of the mcp.Server inside SwaggerMCPServer
    resp,       \* the last response a front-end sent to its client
    upstream,   \* the upstream API requests issued for the last client request
    call,       \* the library call being observed: function name and arguments
    ret,        \* the value that call returned
    invocations, \* the tool invocations in progress, each with its locals
    httpServer  \* the HTTPServer: Start's position, its context and its listener

cfgVars == <<filter, swagger, transport>>
srvVars == <<phase, tools, resp, upstream>>
obsVars == <<call, ret>>
runVars == <<invocations>>
httpVars == <<httpServer>>
vars == <<filter, swagger, transport, phase, tools, resp, upstream, call, ret,
          invocations, httpServer>>

(***************************************************************************)
(* Bounds of the model.                                                    *)
(***************************************************************************)
\* total number of rules the Config.With... builders add to one filter
MaxRules == 3
\* longest generated exclusion pattern and longest generated path
MaxPatternLen == 4
MaxPathLen == 3
\* longest generated operation ID and longest generated path template
MaxIdLen == 4
MaxTemplateLen == 4
\* largest number of arguments of one generated tool call
MaxArgs == 2
\* largest number of parameters of one generated operation
MaxParams == 2
\* number of concurrent invocations of one tool
MaxInvocations == 2
MaxConnections == 2
MaxAccepted == 2

(***************************************************************************)
(* Strings.                                                                *)
(***************************************************************************)
UpperLetters == <<"A","B","C","D","E","F","G","H","I","J","K","L","M",
                  "N","O","P","Q","R","S","T","U","V","W","X","Y","Z">>
LowerLetters == <<"a","b","c","d","e","f","g","h","i","j","k","l","m",
                  "n","o","p","q","r","s","t","u","v","w","x","y","z">>

\* the lower-case letter of every upper-case ASCII letter
LowerCaseOf ==
    [c \in {UpperLetters[i] : i \in 1..26} |->
        LowerLetters[CHOOSE i \in 1..26 : UpperLetters[i] = c]]

\* unicode.ToLower on one ASCII character
ToLowerChar(c) == IF c \in DOMAIN LowerCaseOf THEN LowerCaseOf[c] ELSE c

\* strings.ToLower
ToLower(s) == [i \in 1..Len(s) |-> ToLowerChar(s[i])]

\* strings.EqualFold (ASCII): equal under simple case folding
EqualFold(s, t) == ToLower(s) = ToLower(t)

\* strings.HasPrefix
HasPrefix(s, p) == Len(p) <= Len(s) /\ \A i \in 1..Len(p) : s[i] = p[i]

\* strings.HasSuffix
HasSuffix(s, p) == Len(p) <= Len(s) /\ SubSeq(s, Len(s) - Len(p) + 1, Len(s)) = p

\* s[n:] of Go
Drop(s, n) == SubSeq(s, n + 1, Len(s))

\* strings.TrimPrefix
TrimPrefix(s, p) == IF HasPrefix(s, p) THEN Drop(s, Len(p)) ELSE s

\* strings.Contains
Contains(s, sub) ==
    \E i \in 0..(Len(s) - Len(sub)) : SubSeq(s, i + 1, i + Len(sub)) = sub

\* strings.ReplaceAll for a non-empty old: left to right, non-overlapping
RECURSIVE ReplaceAll(_, _, _)
ReplaceAll(s, old, new) ==
    IF Len(s) = 0 THEN <<>>
    ELSE IF HasPrefix(s, old) THEN new \o ReplaceAll(Drop(s, Len(old)), old, new)
    ELSE <<Head(s)>> \o ReplaceAll(Tail(s), old, new)

\* strings.Split(s, sep) for a one-character sep: always at least one part
RECURSIVE Split(_, _)
Split(s, sep) ==
    IF ~(\E i \in 1..Len(s) : s[i] = sep) THEN <<s>>
    ELSE LET k == CHOOSE i \in 1..Len(s) :
                      s[i] = sep /\ \A j \in 1..(i - 1) : s[j] # sep
         IN  <<SubSeq(s, 1, k - 1)>> \o Split(Drop(s, k), sep)

\* strings.Join(parts, sep)
RECURSIVE Join(_, _)
Join(parts, sep) ==
    IF Len(parts) = 0 THEN <<>>
    ELSE IF Len(parts) = 1 THEN parts[1]
    ELSE parts[1] \o sep \o Join(Tail(parts), sep)

\* all sequences over S of length at most n
SeqsUpTo(S, n) == UNION {[1..k -> S] : k \in 0..n}

\* the elements of a sequence
Range(s) == {s[i] : i \in 1..Len(s)}

(***************************************************************************)
(* String literals used by the inputs.                                     *)
(***************************************************************************)
W_users    == <<"u","s","e","r","s">>
W_orders   == <<"o","r","d","e","r","s">>
W_admin    == <<"a","d","m","i","n">>
W_settings == <<"s","e","t","t","i","n","g","s">>
W_public   == <<"p","u","b","l","i","c">>
W_posts    == <<"p","o","s","t","s">>
W_api      == <<"a","p","i">>
Slash      == <<"/">>

P_users          == Slash \o W_users                         \* /users
P_orders         == Slash \o W_orders                        \* /orders
P_admin          == Slash \o W_admin                         \* /admin
P_adminSettings  == P_admin \o Slash \o W_settings           \* /admin/settings
P_publicSettings == Slash \o W_public \o Slash \o W_settings \* /public/settings
P_adminUsers123  == P_admin \o P_users \o <<"/","1","2","3">> \* /admin/users/123
P_adminStar      == P_admin \o <<"/","*">>                   \* /admin/*
P_usersId        == P_users \o <<"/","{","i","d","}">>       \* /users/{id}
P_users7         == P_users \o <<"/","7">>                   \* /users/7

M_GET    == <<"G","E","T">>
M_POST   == <<"P","O","S","T">>
M_PUT    == <<"P","U","T">>
M_DELETE == <<"D","E","L","E","T","E">>
M_PATCH  == <<"P","A","T","C","H">>
M_delete == <<"d","e","l","e","t","e">>

ID_getUser == <<"g","e","t","U","s","e","r">>
ID_GetUser == <<"G","e","t","U","s","e","r">>

T_admin  == <<"a","d","m","i","n">>
T_Admin  == <<"A","d","m","i","n">>
T_public == <<"p","u","b","l","i","c">>

(***************************************************************************)
(* filepath.Match, as used by matchesPattern: '*' matches any sequence of  *)
(* non-separator characters, '?' one non-separator character, any other   *)
(* character itself.  Character classes and escapes are outside the       *)
(* alphabet of the inputs.                                                 *)
(***************************************************************************)
\* mutant: '*' also matches the separator
RECURSIVE FilepathMatch_CrossSegment(_, _)
FilepathMatch_CrossSegment(pattern, name) ==
    IF Len(pattern) = 0 THEN Len(name) = 0
    ELSE IF Head(pattern) = "*"
         THEN \/ FilepathMatch_CrossSegment(Tail(pattern), name)
              \/ /\ Len(name) > 0
                 /\ FilepathMatch_CrossSegment(pattern, Tail(name))
    ELSE /\ Len(name) > 0
         /\ Head(name) = Head(pattern)
         /\ FilepathMatch_CrossSegment(Tail(pattern), Tail(name))

RECURSIVE FilepathMatch(_, _)
FilepathMatch(pattern, name) ==
    IF Len(pattern) = 0 THEN Len(name) = 0
    ELSE IF Head(pattern) = "*"
         THEN \/ FilepathMatch(Tail(pattern), name)
              \/ /\ Len(name) > 0
                 /\ Head(name) # "/"
                 /\ FilepathMatch(pattern, Tail(name))
    ELSE IF Head(pattern) = "?"
         THEN /\ Len(name) > 0
              /\ Head(name) # "/"
              /\ FilepathMatch(Tail(pattern), Tail(name))
    ELSE /\ Len(name) > 0
         /\ Head(name) = Head(pattern)
         /\ FilepathMatch(Tail(pattern), Tail(name))

\* the pattern conversion of matchesPattern: a part that starts with "{" and
\* ends with "}" becomes "*"; done only when the pattern contains "{"
ConvertPattern(pattern) ==
    IF Contains(pattern, <<"{">>)
    THEN LET parts == Split(pattern, "/")
         IN  Join([i \in 1..Len(parts) |->
                      IF HasPrefix(parts[i], <<"{">>) /\ HasSuffix(parts[i], <<"}">>)
                      THEN <<"*">> ELSE parts[i]],
                  Slash)
    ELSE pattern

\* matchesPattern(path, pattern)
matchesPattern(path, pattern) == FilepathMatch(ConvertPattern(pattern), path)

(***************************************************************************)
(* APIFilter.                                                              *)
(***************************************************************************)
\* &APIFilter{}: every rule list empty
EmptyFilter ==
    [isNil |-> FALSE,
     ExcludePaths |-> <<>>, ExcludePathPatterns |-> <<>>,
     ExcludeOperationIDs |-> <<>>, ExcludeMethods |-> <<>>, ExcludeTags |-> <<>>,
     IncludeOnlyPaths |-> <<>>, IncludeOnlyOperationIDs |-> <<>>]

\* the nil *APIFilter of DefaultConfig
NilFilter == [EmptyFilter EXCEPT !.isNil = TRUE]

\* a spec.Operation as the filter and the name derivation read it
Operation(id, tags) == [ID |-> id, Tags |-> tags]

\* mutant: the include-only paths are matched as patterns, not exactly
FailsIncludeOnlyPaths_Pattern(f, path) ==
    /\ Len(f.IncludeOnlyPaths) > 0
    /\ ~(\E i \in 1..Len(f.IncludeOnlyPaths) :
            matchesPattern(path, f.IncludeOnlyPaths[i]))

\* the include-only path check of ShouldExcludeOperation
FailsIncludeOnlyPaths(f, path) ==
    /\ Len(f.IncludeOnlyPaths) > 0
    /\ ~(\E i \in 1..Len(f.IncludeOnlyPaths) : path = f.IncludeOnlyPaths[i])

\* the allow-list that compares operation IDs ignoring letter case
FailsIncludeOnlyOperationIDs_IgnoreCase(f, op) ==
    /\ Len(f.IncludeOnlyOperationIDs) > 0
    /\ op.ID # <<>>
    /\ ~(\E i \in 1..Len(f.IncludeOnlyOperationIDs) :
            EqualFold(op.ID, f.IncludeOnlyOperationIDs[i]))

\* the include-only operation ID check of ShouldExcludeOperation
FailsIncludeOnlyOperationIDs(f, op) ==
    /\ Len(f.IncludeOnlyOperationIDs) > 0
    /\ op.ID # <<>>
    /\ ~(\E i \in 1..Len(f.IncludeOnlyOperationIDs) :
            op.ID = f.IncludeOnlyOperationIDs[i])

\* mutant: the method is compared case-sensitively
MethodExcluded_CaseSensitive(f, method) ==
    \E i \in 1..Len(f.ExcludeMethods) : method = f.ExcludeMethods[i]

\* the HTTP method exclusion of ShouldExcludeOperation
MethodExcluded(f, method) ==
    \E i \in 1..Len(f.ExcludeMethods) : EqualFold(method, f.ExcludeMethods[i])

\* the tag exclusion of ShouldExcludeOperation
TagExcluded(f, op) ==
    /\ Len(f.ExcludeTags) > 0
    /\ Len(op.Tags) > 0
    /\ \E i \in 1..Len(op.Tags), j \in 1..Len(f.ExcludeTags) :
          EqualFold(op.Tags[i], f.ExcludeTags[j])

\* APIFilter.ShouldExcludeOperation(method, path, operation)
ShouldExcludeOperation(f, method, path, op) ==
    IF f.isNil THEN FALSE
    ELSE IF FailsIncludeOnlyPaths(f, path) THEN TRUE
    ELSE IF FailsIncludeOnlyOperationIDs(f, op) THEN TRUE
    ELSE IF \E i \in 1..Len(f.ExcludePaths) : path = f.ExcludePaths[i] THEN TRUE
    ELSE IF \E i \in 1..Len(f.ExcludePathPatterns) :
               matchesPattern(path, f.ExcludePathPatterns[i]) THEN TRUE
    ELSE IF op.ID # <<>> /\ \E i \in 1..Len(f.ExcludeOperationIDs) :
               op.ID = f.ExcludeOperationIDs[i] THEN TRUE
    ELSE IF MethodExcluded(f, method) THEN TRUE
    ELSE IF TagExcluded(f, op) THEN TRUE
    ELSE FALSE

\* number of rules in a filter
RuleCount(f) ==
    Len(f.ExcludePaths) + Len(f.ExcludePathPatterns) + Len(f.ExcludeOperationIDs)
    + Len(f.ExcludeMethods) + Len(f.ExcludeTags)
    + Len(f.IncludeOnlyPaths) + Len(f.IncludeOnlyOperationIDs)

\* "if c.Filter == nil { c.Filter = &APIFilter{} }" of every builder
EnsureFilter(f) == IF f.isNil THEN EmptyFilter ELSE f

\* no call observed yet
NoCall == [fn |-> "none"]
NoRet  == [done |-> FALSE]
\* the call returned v
Returned(v) == [done |-> TRUE, val |-> v]

\* the builders run before the filter is used
Configuring == phase = "config" /\ call.fn = "none" /\ RuleCount(filter) < MaxRules

\* arguments the builders are called with
ExcludePathArgs      == {P_adminStar, P_users}
ExcludePatternArgs   == {P_adminStar}
ExcludeIDArgs        == {ID_getUser}
ExcludeMethodArgs    == {M_delete}
ExcludeTagArgs       == {T_admin}
IncludePathArgs      == {P_users, P_adminStar}
IncludeIDArgs        == {ID_getUser}

\* Config.WithExcludePaths(p)
WithExcludePaths ==
    \E p \in ExcludePathArgs :
        /\ Configuring
        /\ filter' = [EnsureFilter(filter) EXCEPT !.ExcludePaths = Append(@, p)]
        /\ UNCHANGED <<httpVars, runVars, swagger, transport, srvVars, obsVars>>

\* Config.WithExcludePathPatterns(p)
WithExcludePathPatterns ==
    \E p \in ExcludePatternArgs :
        /\ Configuring
        /\ filter' = [EnsureFilter(filter) EXCEPT !.ExcludePathPatterns = Append(@, p)]
        /\ UNCHANGED <<httpVars, runVars, swagger, transport, srvVars, obsVars>>

\* Config.WithExcludeOperationIDs(id)
WithExcludeOperationIDs ==
    \E id \in ExcludeIDArgs :
        /\ Configuring
        /\ filter' = [EnsureFilter(filter) EXCEPT !.ExcludeOperationIDs = Append(@, id)]
        /\ UNCHANGED <<httpVars, runVars, swagger, transport, srvVars, obsVars>>

\* Config.WithExcludeMethods(m)
WithExcludeMethods ==
    \E m \in ExcludeMethodArgs :
        /\ Configuring
        /\ filter' = [EnsureFilter(filter) EXCEPT !.ExcludeMethods = Append(@, m)]
        /\ UNCHANGED <<httpVars, runVars, swagger, transport, srvVars, obsVars>>

\* Config.WithExcludeTags(t)
WithExcludeTags ==
    \E t \in ExcludeTagArgs :
        /\ Configuring
        /\ filter' = [EnsureFilter(filter) EXCEPT !.ExcludeTags = Append(@, t)]
        /\ UNCHANGED <<httpVars, runVars, swagger, transport, srvVars, obsVars>>

\* Config.WithIncludeOnlyPaths(p)
WithIncludeOnlyPaths ==
    \E p \in IncludePathArgs :
        /\ Configuring
        /\ filter' = [EnsureFilter(filter) EXCEPT !.IncludeOnlyPaths = Append(@, p)]
        /\ UNCHANGED <<httpVars, runVars, swagger, transport, srvVars, obsVars>>

\* Config.WithIncludeOnlyOperationIDs(id)
WithIncludeOnlyOperationIDs ==
    \E id \in IncludeIDArgs :
        /\ Configuring
        /\ filter' = [EnsureFilter(filter) EXCEPT !.IncludeOnlyOperationIDs = Append(@, id)]
        /\ UNCHANGED <<httpVars, runVars, swagger, transport, srvVars, obsVars>>

\* operations the filter is asked about
FilterMethods == {M_GET, M_DELETE}
FilterPaths   == {P_users, P_orders, P_adminSettings}
FilterIDs     == {<<>>, ID_getUser, ID_GetUser}
FilterTags    == {<<>>, <<T_Admin>>, <<T_public>>}

\* a caller evaluates filter.ShouldExcludeOperation(method, path, op)
CallShouldExcludeOperation ==
    \E m \in FilterMethods, p \in FilterPaths, id \in FilterIDs, tg \in FilterTags :
        /\ call.fn = "none"
        /\ call' = [fn |-> "ShouldExcludeOperation", method |-> m, path |-> p,
                    op |-> Operation(id, tg)]
        /\ ret' = Returned(ShouldExcludeOperation(filter, m, p, Operation(id, tg)))
        /\ UNCHANGED <<httpVars, runVars, cfgVars, srvVars>>

\* no HTTPServer has been created
NotStarted == [pc |-> "none"]

\* no server: nothing built, nothing answered, nothing sent
NoResp == [via |-> "none"]
ServerIdle ==
    /\ phase = "config"
    /\ tools = {}
    /\ resp = NoResp
    /\ upstream = {}
    /\ invocations = <<>>
    /\ httpServer = NotStarted

InitFilter ==
    /\ filter = NilFilter
    /\ swagger = {}
    /\ transport = "stdio"
    /\ ServerIdle
    /\ call = NoCall
    /\ ret = NoRet

NextFilter ==
    \/ WithExcludePaths
    \/ WithExcludePathPatterns
    \/ WithExcludeOperationIDs
    \/ WithExcludeMethods
    \/ WithExcludeTags
    \/ WithIncludeOnlyPaths
    \/ WithIncludeOnlyOperationIDs
    \/ CallShouldExcludeOperation

\* the filter configured by the builders and then evaluated
SpecFilter == InitFilter /\ [][NextFilter]_vars

(***************************************************************************)
(* matchesPattern on generated patterns and paths.                         *)
(***************************************************************************)
PatternAlphabet == {"/", "a", "*", "{", "}"}
PathAlphabet    == {"/", "a", "b", "{"}

P_apiVStarAdmin == Slash \o W_api \o <<"/","v","*">> \o P_admin   \* /api/v*/admin
P_apiV1Admin    == Slash \o W_api \o <<"/","v","1">> \o P_admin   \* /api/v1/admin

GlobPatterns ==
    SeqsUpTo(PatternAlphabet, MaxPatternLen)
    \cup {P_adminStar, P_usersId, P_apiVStarAdmin, P_users}
GlobPaths ==
    SeqsUpTo(PathAlphabet, MaxPathLen)
    \cup {P_adminSettings, P_publicSettings, P_admin, P_adminUsers123,
          P_usersId, P_users7, P_apiV1Admin, P_users}

\* matchesPattern(path, pattern) returns
ReturnMatchesPattern ==
    /\ call.fn = "matchesPattern"
    /\ ~ret.done
    /\ ret' = Returned(matchesPattern(call.path, call.pattern))
    /\ UNCHANGED <<httpVars, runVars, cfgVars, srvVars, call>>

InitGlob ==
    /\ filter = NilFilter
    /\ swagger = {}
    /\ transport = "stdio"
    /\ ServerIdle
    /\ call \in [fn : {"matchesPattern"}, path : GlobPaths, pattern : GlobPatterns]
    /\ ret = NoRet

NextGlob == ReturnMatchesPattern

\* matchesPattern applied to every generated (path, pattern)
SpecGlob == InitGlob /\ [][NextGlob]_vars

(***************************************************************************)
(* Tool names: the three places that derive a tool name.                   *)
(***************************************************************************)
Underscore == <<"_">>
Space      == <<" ">>

\* mutant: the whole synthesized name is lower-cased, the path included
registerOperationToolName_LowerPath(method, path, op) ==
    IF op.ID # <<>>
    THEN ToLower(ReplaceAll(op.ID, Space, Underscore))
    ELSE ToLower(method \o Underscore
                 \o TrimPrefix(ReplaceAll(ReplaceAll(ReplaceAll(path, Slash, Underscore),
                                                     <<"{">>, <<>>), <<"}">>, <<>>),
                               Underscore))

\* the tool name computed by SwaggerMCPServer.registerOperation
registerOperationToolName(method, path, op) ==
    IF op.ID # <<>>
    THEN LET toolName == ReplaceAll(op.ID, Space, Underscore)
         IN  ToLower(toolName)
    ELSE LET toolName  == ToLower(method) \o Underscore
             pathName0 == ReplaceAll(path, Slash, Underscore)
             pathName1 == ReplaceAll(pathName0, <<"{">>, <<>>)
             pathName2 == ReplaceAll(pathName1, <<"}">>, <<>>)
             pathName3 == TrimPrefix(pathName2, Underscore)
         IN  toolName \o pathName3

\* HTTPServer.getToolName
getToolName(method, path, op) ==
    IF op.ID # <<>>
    THEN ToLower(ReplaceAll(op.ID, Space, Underscore))
    ELSE LET toolName  == ToLower(method) \o Underscore
             pathName0 == ReplaceAll(path, Slash, Underscore)
             pathName1 == ReplaceAll(pathName0, <<"{">>, <<>>)
             pathName2 == ReplaceAll(pathName1, <<"}">>, <<>>)
             pathName3 == TrimPrefix(pathName2, Underscore)
         IN  toolName \o pathName3

\* mutant: the spaces of an operation ID are kept
toolNameFor_KeepSpaces(method, path, op) ==
    IF op.ID # <<>>
    THEN ToLower(op.ID)
    ELSE getToolName(method, path, op)

\* toolNameFor, used by Server.ListTools (op is never nil there)
toolNameFor(method, path, op) ==
    IF op.ID # <<>>
    THEN ToLower(ReplaceAll(op.ID, Space, Underscore))
    ELSE LET toolName  == ToLower(method) \o Underscore
             pathName0 == ReplaceAll(path, Slash, Underscore)
             pathName1 == ReplaceAll(pathName0, <<"{">>, <<>>)
             pathName2 == ReplaceAll(pathName1, <<"}">>, <<>>)
             pathName3 == TrimPrefix(pathName2, Underscore)
         IN  toolName \o pathName3

ID_getUserById == <<"g","e","t","U","s","e","r","B","y","I","d">>
ID_get_user    == <<"g","e","t","_","u","s","e","r">>
ID_get0user    == <<"g","e","t"," ","u","s","e","r">>            \* "get user"
P_usersIdPosts == P_usersId \o Slash \o W_posts                 \* /users/{id}/posts
P_usersIdPostsPostId ==                                          \* /users/{id}/posts/{postId}
    P_usersIdPosts \o <<"/","{","p","o","s","t","I","d","}">>

IdAlphabet       == {" ", "_", "a", "B"}
TemplateAlphabet == {"/", "{", "}", "_", "a", "B"}

NamedIDs       == {ID_getUserById, ID_getUser, ID_GetUser, ID_get_user, ID_get0user}
NamedTemplates == {P_users, P_usersId, P_usersIdPosts, P_usersIdPostsPostId}
NameMethods    == {M_GET, M_POST, M_delete}

\* operations with an ID (on the named templates) and operations without one
\* (on every generated template)
NameInputs ==
    [fn : {"toolName"}, method : NameMethods, path : NamedTemplates,
     op : {Operation(id, <<>>) :
              id \in (SeqsUpTo(IdAlphabet, MaxIdLen) \cup NamedIDs) \ {<<>>}}]
    \cup
    [fn : {"toolName"}, method : NameMethods,
     path : SeqsUpTo(TemplateAlphabet, MaxTemplateLen) \cup NamedTemplates,
     op : {Operation(<<>>, <<>>)}]

\* the name of one operation is computed at registration, by the HTTP
\* front-end and by ListTools
ReturnToolNames ==
    /\ call.fn = "toolName"
    /\ ~ret.done
    /\ ret' = Returned([stdio |-> registerOperationToolName(call.method, call.path, call.op),
                        http  |-> getToolName(call.method, call.path, call.op),
                        list  |-> toolNameFor(call.method, call.path, call.op)])
    /\ UNCHANGED <<httpVars, runVars, cfgVars, srvVars, call>>

InitName ==
    /\ filter = NilFilter
    /\ swagger = {}
    /\ transport = "stdio"
    /\ ServerIdle
    /\ call \in NameInputs
    /\ ret = NoRet

NextName == ReturnToolNames

\* tool-name derivation applied to every generated operation
SpecName == InitName /\ [][NextName]_vars

(***************************************************************************)
(* The server: New registers the tools, Run serves them over stdio or     *)
(* over HTTP.                                                              *)
(***************************************************************************)
\* one (path, method) entry of swagger.Paths.Paths
Entry(method, path, id, tags) ==
    [method |-> method, path |-> path, op |-> Operation(id, tags)]

\* the specifications a server is built from
SwaggerAdmin ==
    {Entry(M_GET, P_users, ID_getUser, <<T_public>>),
     Entry(M_GET, P_adminSettings, <<>>, <<T_Admin>>),
     Entry(M_DELETE, P_usersId, <<>>, <<>>)}
SwaggerSameName ==
    {Entry(M_GET, P_users, ID_getUser, <<>>),
     Entry(M_GET, P_orders, ID_GetUser, <<>>),
     Entry(M_POST, P_orders, <<>>, <<>>)}
SwaggerSpaces ==
    {Entry(M_GET, P_users, ID_get0user, <<>>),
     Entry(M_POST, P_users, ID_get_user, <<>>),
     Entry(M_PATCH, P_adminSettings, <<>>, <<T_Admin>>)}
SampleSpecs == {SwaggerAdmin, SwaggerSameName, SwaggerSpaces}

\* every operation of the sample specifications, with the names the stdio
\* registration and the HTTP front-end derive for it (computed once)
AllEntries == UNION SampleSpecs
RegisteredNameOf ==
    [e \in AllEntries |-> registerOperationToolName(e.method, e.path, e.op)]
HTTPNameOf == [e \in AllEntries |-> getToolName(e.method, e.path, e.op)]

\* the fixed order in which registerPathTools, findOperationByTool and
\* getAvailableTools visit the methods of one path item
MethodOrder == <<M_GET, M_POST, M_PUT, M_DELETE, M_PATCH>>

\* the keys of swagger.Paths.Paths
PathsOf(sw) == {e.path : e \in sw}

\* the orders in which a Go map range may visit the paths
PathOrders(sw) ==
    {o \in [1..Cardinality(PathsOf(sw)) -> PathsOf(sw)] :
        \A i, j \in DOMAIN o : i # j => o[i] # o[j]}

\* the operations of one path item, in MethodOrder
RECURSIVE EntriesOfPath(_, _, _)
EntriesOfPath(sw, path, k) ==
    IF k > Len(MethodOrder) THEN <<>>
    ELSE LET here == {e \in sw : e.path = path /\ e.method = MethodOrder[k]}
         IN  (IF here = {} THEN <<>> ELSE <<CHOOSE e \in here : TRUE>>)
             \o EntriesOfPath(sw, path, k + 1)

\* every operation in the order a range over the paths visits them
RECURSIVE EntriesInOrder(_, _)
EntriesInOrder(sw, order) ==
    IF Len(order) = 0 THEN <<>>
    ELSE EntriesOfPath(sw, order[1], 1) \o EntriesInOrder(sw, Tail(order))

\* mcp.Server.AddTool: adds the tool, or replaces the one with the same name
AddTool(table, tool) == {t \in table : t.name # tool.name} \cup {tool}

\* SwaggerMCPServer.registerOperation
registerOperation(table, f, e) ==
    IF ~f.isNil /\ ShouldExcludeOperation(f, e.method, e.path, e.op)
    THEN table
    ELSE AddTool(table, [name   |-> RegisteredNameOf[e],
                         method |-> e.method,
                         path   |-> e.path])

\* SwaggerMCPServer.RegisterTools over the operations in visiting order
RECURSIVE RegisterTools(_, _, _)
RegisterTools(table, f, entries) ==
    IF Len(entries) = 0 THEN table
    ELSE RegisterTools(registerOperation(table, f, entries[1]), f, Tail(entries))

\* Config.WithHTTPTransport(port, host, path)
WithHTTPTransport ==
    /\ phase = "config"
    /\ call.fn = "none"
    /\ transport = "stdio"
    /\ transport' = "http"
    /\ UNCHANGED <<httpVars, runVars, filter, swagger, srvVars, obsVars>>

\* New(config): the configuration is valid (a specification, a name, a
\* version and a transport are set), the tools are registered
New ==
    /\ phase = "config"
    /\ call.fn = "none"
    /\ swagger # {}
    /\ \E order \in PathOrders(swagger) :
          tools' = RegisterTools({}, filter, EntriesInOrder(swagger, order))
    /\ phase' = "built"
    /\ UNCHANGED <<httpVars, runVars, cfgVars, resp, upstream, obsVars>>

\* Server.Run: serves with the configured transport
Run ==
    /\ phase = "built"
    /\ phase' = "serving"
    /\ UNCHANGED <<httpVars, runVars, cfgVars, tools, resp, upstream, obsVars>>

\* what the upstream API may answer: a status code, or 0 for a transport error
UpstreamAnswers == {200, 404, 0}

\* HTTPServer.createToolInfo (name, method and path of the tool)
createToolInfo(e) ==
    [name |-> HTTPNameOf[e], method |-> e.method, path |-> e.path]

\* HTTPServer.getAvailableTools: one entry per operation of the specification
getAvailableTools(sw) == {createToolInfo(e) : e \in sw}

\* a lookup that falls back to the first operation visited
findOperationByTool_FirstEntry(toolName, entries) ==
    LET hits == {i \in 1..Len(entries) : HTTPNameOf[entries[i]] = toolName}
    IN  IF hits = {} THEN (IF Len(entries) = 0 THEN <<>> ELSE <<entries[1]>>)
        ELSE <<entries[CHOOSE i \in hits : \A j \in hits : i <= j]>>

\* HTTPServer.findOperationByTool: the first operation, in visiting order,
\* whose name is toolName; <<>> when there is none
findOperationByTool(toolName, entries) ==
    LET hits == {i \in 1..Len(entries) : HTTPNameOf[entries[i]] = toolName}
    IN  IF hits = {} THEN <<>>
        ELSE <<entries[CHOOSE i \in hits : \A j \in hits : i <= j]>>

\* names a client may ask for: every derived name and one that is no tool
\* fmt.Errorf("tool not found: %s", toolName)
W_toolNotFound == <<"t","o","o","l"," ","n","o","t"," ","f","o","u","n","d",":"," ">>
W_nosuchtool == <<"n","o","s","u","c","h">>
CallableNames(sw) == {HTTPNameOf[e] : e \in sw} \cup {W_nosuchtool}

Serving(t) == phase = "serving" /\ transport = t

\* GET /tools (HTTPServer.handleToolsList)
HandleToolsList ==
    /\ Serving("http")
    /\ resp' = [via |-> "http", endpoint |-> "/tools", status |-> 200,
                tools |-> getAvailableTools(swagger)]
    /\ upstream' = {}
    /\ UNCHANGED <<httpVars, runVars, cfgVars, phase, tools, obsVars>>

\* POST /mcp with method tools/list (handleMCPRequest, handleToolsListMCP)
HandleToolsListMCP ==
    /\ Serving("http")
    /\ resp' = [via |-> "http", endpoint |-> "tools/list", status |-> 200,
                tools |-> getAvailableTools(swagger)]
    /\ upstream' = {}
    /\ UNCHANGED <<httpVars, runVars, cfgVars, phase, tools, obsVars>>

\* the operations findOperationByTool may return for toolName, over the
\* orders in which the paths may be visited
FoundByTool(toolName, sw) ==
    {findOperationByTool(toolName, EntriesInOrder(sw, order)) : order \in PathOrders(sw)}

\* POST /mcp with method tools/call (handleMCPRequest, handleToolCallMCP,
\* executeAPICall, executeHTTPRequest)
HandleToolCallMCP ==
    /\ Serving("http")
    /\ \E name \in CallableNames(swagger) :
          \E found \in FoundByTool(name, swagger), answer \in UpstreamAnswers :
              IF found = <<>>
              THEN /\ resp' = [via |-> "http", endpoint |-> "tools/call", name |-> name,
                               status |-> 500, error |-> "tool not found",
                               message |-> W_toolNotFound \o name]
                   /\ upstream' = {}
              ELSE /\ upstream' = {[method |-> found[1].method, path |-> found[1].path]}
                   /\ resp' = [via |-> "http", endpoint |-> "tools/call", name |-> name,
                               status |-> IF answer = 0 THEN 500 ELSE 200,
                               error |-> IF answer = 0 THEN "request failed" ELSE "none",
                               upstreamStatus |-> answer]
    /\ UNCHANGED <<httpVars, runVars, cfgVars, phase, tools, obsVars>>

\* an HTTP request to the MCP endpoint: its method, whether its body is the
\* JSON of a request object, the MCP method and the kind of params["name"]
MCPRequest(httpMethod, body, method, name) ==
    [httpMethod |-> httpMethod, body |-> body, method |-> method, name |-> name]

MCPRequests ==
    {MCPRequest(hm, b, m, n) :
        hm \in {"OPTIONS", "GET", "DELETE", "POST"},
        b \in {"not json", "json"},
        m \in {"tools/list", "tools/call", "resources/list"},
        n \in {"missing", "number", "string"}}

\* the endpoint without the CORS answer to OPTIONS
handleMCPRequest_NoPreflight(r) ==
    IF r.httpMethod # "POST"
    THEN [status |-> 405, error |-> "Only POST method allowed", dispatch |-> "none"]
    ELSE IF r.body # "json"
    THEN [status |-> 400, error |-> "Invalid JSON request", dispatch |-> "none"]
    ELSE IF r.method = "tools/list"
    THEN [status |-> 200, error |-> "none", dispatch |-> "tools/list"]
    ELSE IF r.method = "tools/call"
    THEN IF r.name # "string"
         THEN [status |-> 400, error |-> "Missing or invalid tool name",
               dispatch |-> "none"]
         ELSE [status |-> 200, error |-> "none", dispatch |-> "tools/call"]
    ELSE [status |-> 400, error |-> "Unknown method", dispatch |-> "none"]

\* corsHandler(handleMCPRequest) up to the dispatch: the status and error it
\* answers by itself, or the MCP method it hands the request to
handleMCPRequest(r) ==
    IF r.httpMethod = "OPTIONS"
    THEN [status |-> 200, error |-> "none", dispatch |-> "none"]
    ELSE IF r.httpMethod # "POST"
    THEN [status |-> 405, error |-> "Only POST method allowed", dispatch |-> "none"]
    ELSE IF r.body # "json"
    THEN [status |-> 400, error |-> "Invalid JSON request", dispatch |-> "none"]
    ELSE IF r.method = "tools/list"
    THEN [status |-> 200, error |-> "none", dispatch |-> "tools/list"]
    ELSE IF r.method = "tools/call"
    THEN IF r.name # "string"
         THEN [status |-> 400, error |-> "Missing or invalid tool name",
               dispatch |-> "none"]
         ELSE [status |-> 200, error |-> "none", dispatch |-> "tools/call"]
    ELSE [status |-> 400, error |-> "Unknown method", dispatch |-> "none"]

\* a request to the MCP endpoint that is answered without reaching tools/list
\* or tools/call (those are HandleToolsListMCP and HandleToolCallMCP)
HandleMCPRequest ==
    /\ Serving("http")
    /\ \E r \in MCPRequests :
          LET out == handleMCPRequest(r)
          IN  /\ out.dispatch = "none"
              /\ resp' = [via |-> "http", endpoint |-> "/mcp", request |-> r,
                          status |-> out.status, error |-> out.error]
    /\ upstream' = {}
    /\ UNCHANGED <<httpVars, runVars, cfgVars, phase, tools, obsVars>>

\* tools/list on the stdio session: the registered tools
SessionListTools ==
    /\ Serving("stdio")
    /\ resp' = [via |-> "stdio", endpoint |-> "tools/list", tools |-> tools]
    /\ upstream' = {}
    /\ UNCHANGED <<httpVars, runVars, cfgVars, phase, tools, obsVars>>

\* tools/call on the stdio session: the handler registered under the name
\* (createHandler) issues the upstream request
SessionCallTool ==
    /\ Serving("stdio")
    /\ \E name \in CallableNames(swagger), answer \in UpstreamAnswers :
          LET hit == {t \in tools : t.name = name}
          IN  IF hit = {}
              THEN /\ resp' = [via |-> "stdio", endpoint |-> "tools/call", name |-> name,
                               error |-> "unknown tool"]
                   /\ upstream' = {}
              ELSE LET t == CHOOSE x \in hit : TRUE
                   IN  /\ upstream' = {[method |-> t.method, path |-> t.path]}
                       /\ resp' = [via |-> "stdio", endpoint |-> "tools/call",
                                   name |-> name,
                                   error |-> IF answer = 0 THEN "request failed" ELSE "none",
                                   isError |-> answer >= 400,
                                   upstreamStatus |-> answer]
    /\ UNCHANGED <<httpVars, runVars, cfgVars, phase, tools, obsVars>>

\* the characters of tool names in byte order
ByteOrder ==
    <<" ", "-", ".", "/", "0", "1", "2", "3", "4", "5", "6", "7", "8", "9">>
    \o UpperLetters \o <<"_">> \o LowerLetters \o <<"{", "}">>
ByteOf(c) == CHOOSE i \in DOMAIN ByteOrder : ByteOrder[i] = c

\* a < b as Go compares strings
RECURSIVE StringLess(_, _)
StringLess(a, b) ==
    IF b = <<>> THEN FALSE
    ELSE IF a = <<>> THEN TRUE
    ELSE IF Head(a) # Head(b) THEN ByteOf(Head(a)) < ByteOf(Head(b))
    ELSE StringLess(Tail(a), Tail(b))

\* the sorted list with one more string
RECURSIVE InsertSorted(_, _)
InsertSorted(sorted, x) ==
    IF sorted = <<>> THEN <<x>>
    ELSE IF StringLess(x, Head(sorted)) THEN <<x>> \o sorted
    ELSE <<Head(sorted)>> \o InsertSorted(Tail(sorted), x)

\* sort.Strings
RECURSIVE SortStrings(_)
SortStrings(list) ==
    IF list = <<>> THEN <<>>
    ELSE InsertSorted(SortStrings(Tail(list)), Head(list))

\* the names Server.ListTools derives (computed once)
ListNameOf == [e \in AllEntries |-> toolNameFor(e.method, e.path, e.op)]

\* the names ListTools appends while it ranges over the paths
RECURSIVE ListedNames(_, _)
ListedNames(f, entries) ==
    IF entries = <<>> THEN <<>>
    ELSE (IF ShouldExcludeOperation(f, entries[1].method, entries[1].path, entries[1].op)
          THEN <<>> ELSE <<ListNameOf[entries[1]]>>)
         \o ListedNames(f, Tail(entries))

\* Server.ListTools
ListTools ==
    /\ phase \in {"built", "serving"}
    /\ \E order \in PathOrders(swagger) :
          resp' = [via |-> "lib", endpoint |-> "ListTools",
                   names |-> SortStrings(ListedNames(filter, EntriesInOrder(swagger, order)))]
    /\ upstream' = {}
    /\ UNCHANGED <<httpVars, runVars, cfgVars, phase, tools, obsVars>>

Init ==
    /\ filter = NilFilter
    /\ swagger \in SampleSpecs
    /\ transport = "stdio"
    /\ ServerIdle
    /\ call = NoCall
    /\ ret = NoRet

Next ==
    \/ WithExcludePaths
    \/ WithExcludePathPatterns
    \/ WithExcludeOperationIDs
    \/ WithExcludeMethods
    \/ WithExcludeTags
    \/ WithIncludeOnlyPaths
    \/ WithIncludeOnlyOperationIDs
    \/ WithHTTPTransport
    \/ New
    \/ Run
    \/ HandleToolsList
    \/ HandleToolsListMCP
    \/ HandleToolCallMCP
    \/ SessionListTools
    \/ ListTools
    \/ SessionCallTool

\* a server configured, built and serving its clients
Spec == Init /\ [][Next]_vars

\* a server that New built and Run started with the HTTP transport
InitEndpoint ==
    /\ filter = NilFilter
    /\ swagger \in SampleSpecs
    /\ transport = "http"
    /\ phase = "serving"
    /\ \E order \in PathOrders(swagger) :
          tools = RegisterTools({}, filter, EntriesInOrder(swagger, order))
    /\ resp = NoResp
    /\ upstream = {}
    /\ invocations = <<>>
    /\ httpServer = NotStarted
    /\ call = NoCall
    /\ ret = NoRet

NextEndpoint ==
    \/ HandleMCPRequest
    \/ HandleToolsListMCP
    \/ HandleToolCallMCP

\* every request to the MCP endpoint of a serving HTTP server
SpecEndpoint == InitEndpoint /\ [][NextEndpoint]_vars

(***************************************************************************)
(* The request builder of a tool call (createHandler of mcp/server.go; the *)
(* same statements are in HTTPServer.buildAPIRequest and in                *)
(* APIExecutor.BuildAndExecuteRequest).                                     *)
(*                                                                         *)
(* An argument value is a JSON value as json.Unmarshal leaves it in an     *)
(* interface{}: nil, a string, a float64 or a map; the fields of a map are *)
(* kept in key order, the order both fmt and encoding/json write them in.  *)
(***************************************************************************)
K_id     == <<"i","d">>
K_filter == <<"f","i","l","t","e","r">>
K_body   == <<"b","o","d","y">>
K_name   == <<"n","a","m","e">>
ArgKeys  == {K_id, K_filter, K_body, K_name}

\* sort order of the argument names (encoding/json writes map keys sorted)
SortedKeys == <<K_body, K_filter, K_id, K_name>>

JNull        == [kind |-> "null",   text |-> <<>>, fields |-> <<>>]
JString(s)   == [kind |-> "string", text |-> s,    fields |-> <<>>]
JNumber(s)   == [kind |-> "number", text |-> s,    fields |-> <<>>]
JObject(kvs) == [kind |-> "object", text |-> <<>>, fields |-> kvs]

\* "{" + key + "}"
Placeholder(key) == <<"{">> \o key \o <<"}">>

W_active == <<"a","c","t","i","v","e">>
W_A      == <<"A">>
W_nil    == <<"<","n","i","l",">">>
W_null   == <<"n","u","l","l">>
W_map    == <<"m","a","p","[">>

V_7      == JNumber(<<"7">>)
V_active == JString(W_active)
V_braces == JString(Placeholder(K_filter))
V_object == JObject(<<[key |-> K_name, value |-> JString(W_A)]>>)

\* the values an argument may have
ArgValues == {V_7, V_active, V_braces, JNull, V_object}

\* fmt.Sprintf("%v", value): a string as it is, a whole float64 without a
\* fraction, nil as <nil>, a map as map[key:value ...]
RECURSIVE Sprint(_)
Sprint(v) ==
    CASE v.kind = "string" -> v.text
      [] v.kind = "number" -> v.text
      [] v.kind = "null"   -> W_nil
      [] v.kind = "object" ->
            W_map
            \o Join([i \in 1..Len(v.fields) |->
                        v.fields[i].key \o <<":">> \o Sprint(v.fields[i].value)],
                    <<" ">>)
            \o <<"]">>

\* json.Marshal(value) for values without characters that need escaping
RECURSIVE Marshal(_)
Marshal(v) ==
    CASE v.kind = "string" -> <<"\"">> \o v.text \o <<"\"">>
      [] v.kind = "number" -> v.text
      [] v.kind = "null"   -> W_null
      [] v.kind = "object" ->
            <<"{">>
            \o Join([i \in 1..Len(v.fields) |->
                        <<"\"">> \o v.fields[i].key \o <<"\"", ":">>
                        \o Marshal(v.fields[i].value)],
                    <<",">>)
            \o <<"}">>

\* a map[string]interface{} as the value json.Marshal is given
MapValue(m) ==
    LET Has(k) == k \in DOMAIN m
        ks     == SelectSeq(SortedKeys, Has)
    IN  JObject([i \in 1..Len(ks) |-> [key |-> ks[i], value |-> m[ks[i]]]])

\* delete(params, key)
Delete(m, key) == [k \in DOMAIN m \ {key} |-> m[k]]

\* the orders in which a range over a map with these keys may visit them
OrdersOf(keys) ==
    {o \in [1..Cardinality(keys) -> keys] : Range(o) = keys}

\* the extraction that leaves the body key among the parameters
ExtractBody_KeepKey(args) ==
    [bodyData |-> IF K_body \in DOMAIN args THEN args[K_body] ELSE JNull,
     params   |-> args]

\* "Extract body parameter if present": bodyData (nil when there is no body
\* key, and when its value is JSON null) and the map without the key
ExtractBody(args) ==
    [bodyData |-> IF K_body \in DOMAIN args THEN args[K_body] ELSE JNull,
     params   |-> Delete(args, K_body)]

\* "Replace path parameters": the keys are visited in order; a key whose
\* placeholder is in the URL built so far is replaced and deleted
RECURSIVE ReplacePathParameters(_, _, _)
ReplacePathParameters(url, params, order) ==
    IF order = <<>> THEN [url |-> url, params |-> params]
    ELSE LET key         == Head(order)
             placeholder == Placeholder(key)
         IN  IF Contains(url, placeholder)
             THEN ReplacePathParameters(
                      ReplaceAll(url, placeholder, Sprint(params[key])),
                      Delete(params, key), Tail(order))
             ELSE ReplacePathParameters(url, params, Tail(order))

\* method == "POST" || method == "PUT" || method == "PATCH", without PATCH
SendsBody_NoPatch(method) == method \in {M_POST, M_PUT}

\* method == "POST" || method == "PUT" || method == "PATCH"
SendsBody(method) == method \in {M_POST, M_PUT, M_PATCH}

\* "Use body data if available, otherwise use remaining params"; <<>> when
\* dataToSend stays nil
DataToSend(bodyData, params) ==
    IF bodyData # JNull THEN <<bodyData>>
    ELSE IF DOMAIN params # {} THEN <<MapValue(params)>>
    ELSE <<>>

\* "Add remaining params as query parameters"
AddQueryParameters(url, params, order) ==
    IF DOMAIN params = {} THEN url
    ELSE LET queryParams ==
                 [i \in 1..Len(order) |->
                     order[i] \o <<"=">> \o Sprint(params[order[i]])]
         IN  IF Contains(url, <<"?">>)
             THEN url \o <<"&">> \o Join(queryParams, <<"&">>)
             ELSE url \o <<"?">> \o Join(queryParams, <<"&">>)

\* "Prepare request": the request handed to http.NewRequestWithContext, with
\* the arguments left in params
PrepareRequest(method, url, bodyData, params, order) ==
    IF SendsBody(method)
    THEN LET dataToSend == DataToSend(bodyData, params)
         IN  [method  |-> method, url |-> url,
              hasBody |-> dataToSend # <<>>,
              body    |-> IF dataToSend = <<>> THEN <<>> ELSE Marshal(dataToSend[1]),
              params  |-> params]
    ELSE [method  |-> method, url |-> AddQueryParameters(url, params, order),
          hasBody |-> FALSE, body |-> <<>>, params |-> params]

\* the requests createHandler may build for one call, over the orders in
\* which the two range loops may visit the arguments
createHandlerRequests(apiBaseURL, method, path, args) ==
    LET extracted == ExtractBody(args)
    IN  UNION {
            LET replaced == ReplacePathParameters(apiBaseURL \o path,
                                                  extracted.params, pathOrder)
            IN  {PrepareRequest(method, replaced.url, extracted.bodyData,
                                replaced.params, queryOrder) :
                    queryOrder \in OrdersOf(DOMAIN replaced.params)}
            : pathOrder \in OrdersOf(DOMAIN extracted.params)}

\* strconv of a status code (fmt %d)
Digits == <<"0","1","2","3","4","5","6","7","8","9">>
RECURSIVE Itoa(_)
Itoa(n) == IF n < 10 THEN <<Digits[n + 1]>> ELSE Itoa(n \div 10) \o <<Digits[(n % 10) + 1]>>

W_appjson   == <<"a","p","p","l","i","c","a","t","i","o","n","/","j","s","o","n">>
W_Bearer    == <<"B","e","a","r","e","r"," ">>
W_APIerror  == <<"A","P","I"," ","e","r","r","o","r"," ">>
W_oops      == <<"o","o","p","s">>
W_key       == <<"k","1">>

\* the headers with the key sent as a bearer token only
SetHeaders_BearerOnly(hasBody, apiKey) ==
    (IF hasBody THEN {[name |-> "Content-Type", value |-> W_appjson]} ELSE {})
    \cup {[name |-> "Accept", value |-> W_appjson]}
    \cup (IF apiKey # <<>>
          THEN {[name |-> "Authorization", value |-> W_Bearer \o apiKey]}
          ELSE {})

\* "Set headers" and "Add API key if configured": the header set of the request
SetHeaders(hasBody, apiKey) ==
    (IF hasBody THEN {[name |-> "Content-Type", value |-> W_appjson]} ELSE {})
    \cup {[name |-> "Accept", value |-> W_appjson]}
    \cup (IF apiKey # <<>>
          THEN {[name |-> "X-API-Key", value |-> apiKey],
                [name |-> "Authorization", value |-> W_Bearer \o apiKey]}
          ELSE {})

\* http.NewRequestWithContext(ctx, ...) of createHandler and
\* BuildAndExecuteRequest, http.NewRequest(...) of executeHTTPRequest: the
\* prepared request with its headers; ctx tells whether it is bound to the
\* caller's context
NewRequest(prepared, apiKey, withContext) ==
    [method  |-> prepared.method, url  |-> prepared.url,
     hasBody |-> prepared.hasBody, body |-> prepared.body,
     params  |-> prepared.params,
     headers |-> SetHeaders(prepared.hasBody, apiKey),
     ctx     |-> withContext]

\* what the upstream API answers: a response with a status and a body that
\* is JSON text or plain text, or client.Do fails, or reading the body fails
JSONBody(v)  == [isJSON |-> TRUE,  value |-> v,     text |-> Marshal(v)]
TextBody(s)  == [isJSON |-> FALSE, value |-> JNull, text |-> s]
ReplyBodies  == {JSONBody(V_object), TextBody(W_oops)}
Response(status, body) == [kind |-> "response", status |-> status, body |-> body]
DoError      == [kind |-> "doError",   status |-> 0,   body |-> TextBody(<<>>)]
ReadError    == [kind |-> "readError", status |-> 200, body |-> TextBody(<<>>)]
UpstreamReplies ==
    {Response(s, b) : s \in {200, 404}, b \in ReplyBodies} \cup {DoError, ReadError}

\* json.MarshalIndent(value, "", "  ")
Indent(depth) == [i \in 1..(2 * depth) |-> " "]
RECURSIVE MarshalIndentAt(_, _)
MarshalIndentAt(v, depth) ==
    IF v.kind # "object" THEN Marshal(v)
    ELSE IF Len(v.fields) = 0 THEN <<"{", "}">>
    ELSE <<"{", "\n">>
         \o Join([i \in 1..Len(v.fields) |->
                     Indent(depth + 1) \o <<"\"">> \o v.fields[i].key \o <<"\"", ":", " ">>
                     \o MarshalIndentAt(v.fields[i].value, depth + 1)],
                 <<",", "\n">>)
         \o <<"\n">> \o Indent(depth) \o <<"}">>
MarshalIndent(v) == MarshalIndentAt(v, 0)

\* "Try to format JSON response ... Return as plain text if not JSON"
FormatResponse(body) ==
    IF body.isJSON THEN MarshalIndent(body.value) ELSE body.text

\* the result with only the server errors (status >= 500) flagged
createHandlerResult_ServerErrorsOnly(reply) ==
    CASE reply.kind = "doError" ->
            [err |-> "request failed", isError |-> FALSE, text |-> <<>>]
      [] reply.kind = "readError" ->
            [err |-> "failed to read response", isError |-> FALSE, text |-> <<>>]
      [] reply.kind = "response" /\ reply.status >= 500 ->
            [err |-> "none", isError |-> TRUE,
             text |-> W_APIerror \o Itoa(reply.status) \o <<":", " ">> \o reply.body.text]
      [] OTHER ->
            [err |-> "none", isError |-> FALSE, text |-> FormatResponse(reply.body)]

\* createHandler after client.Do: the CallToolResult or the error it returns
createHandlerResult(reply) ==
    CASE reply.kind = "doError" ->
            [err |-> "request failed", isError |-> FALSE, text |-> <<>>]
      [] reply.kind = "readError" ->
            [err |-> "failed to read response", isError |-> FALSE, text |-> <<>>]
      [] reply.kind = "response" /\ reply.status >= 400 ->
            [err |-> "none", isError |-> TRUE,
             text |-> W_APIerror \o Itoa(reply.status) \o <<":", " ">> \o reply.body.text]
      [] OTHER ->
            [err |-> "none", isError |-> FALSE, text |-> FormatResponse(reply.body)]

JBool(b) == [kind |-> "bool", text |-> IF b THEN <<"t","r","u","e">> ELSE <<"f","a","l","s","e">>,
             fields |-> <<>>]
K_error   == <<"e","r","r","o","r">>
K_status  == <<"s","t","a","t","u","s">>
K_message == <<"m","e","s","s","a","g","e">>
K_content == <<"c","o","n","t","e","n","t">>
K_type    == <<"t","y","p","e">>
W_text    == <<"t","e","x","t">>
W_requestFailed == <<"r","e","q","u","e","s","t"," ","f","a","i","l","e","d">>
W_readFailed    == <<"f","a","i","l","e","d"," ","t","o"," ","r","e","a","d">>

\* HTTPServer.executeHTTPRequest after client.Do: the value and the error
executeHTTPRequestResult(reply) ==
    CASE reply.kind = "doError" ->
            [err |-> "request failed", value |-> JNull]
      [] reply.kind = "readError" ->
            [err |-> "failed to read response", value |-> JNull]
      [] reply.kind = "response" /\ reply.status >= 400 ->
            [err |-> "none",
             value |-> JObject(<<[key |-> K_error,   value |-> JBool(TRUE)],
                                 [key |-> K_message, value |-> JString(reply.body.text)],
                                 [key |-> K_status,  value |-> JNumber(Itoa(reply.status))]>>)]
      [] OTHER ->
            [err |-> "none",
             value |-> IF reply.body.isJSON THEN reply.body.value
                       ELSE JObject(<<[key |-> K_content, value |-> JString(reply.body.text)],
                                      [key |-> K_type,    value |-> JString(W_text)]>>)]

W_createFailed == <<"f","a","i","l","e","d"," ","t","o"," ","c","r","e","a","t","e">>
\* err.Error() (the prefix the code puts before the cause)
ErrorText(err) ==
    CASE err = "request failed" -> W_requestFailed
      [] err = "failed to read response" -> W_readFailed
      [] OTHER -> W_createFailed

\* HTTPServer.handleToolCallMCP on the result of executeAPICall: the response
\* body and the HTTP status written by handleMCPRequest
handleToolCallMCPResponse(result) ==
    IF result.err # "none"
    THEN [err |-> result.err, httpStatus |-> 500,
          response |-> JObject(<<[key |-> K_error,
                                  value |-> JString(ErrorText(result.err))]>>)]
    ELSE [err |-> "none", httpStatus |-> 200, response |-> result.value]

\* APIExecutor.BuildAndExecuteRequest after client.Do: content, status, error
BuildAndExecuteRequestResult(reply) ==
    CASE reply.kind = "doError" ->
            [err |-> "request failed", statusCode |-> 0, content |-> <<>>]
      [] reply.kind = "readError" ->
            [err |-> "failed to read response", statusCode |-> reply.status, content |-> <<>>]
      [] OTHER ->
            [err |-> "none", statusCode |-> reply.status,
             content |-> FormatResponse(reply.body)]

B_api        == <<"h",":","/","/","h">>
P_petsId     == <<"/","p","e","t","s","/","{","i","d","}">>
P_itemsBody  == <<"/","i","/","{","b","o","d","y","}">>

B_tenant     == <<"h",":","/","/","{","i","d","}">>
ExecBaseURLs  == {B_api, B_tenant}
ExecMethods   == {M_GET, M_POST, M_PUT, M_DELETE, M_PATCH}
ExecTemplates == {P_petsId, P_users, P_itemsBody}
ExecAPIKeys   == {<<>>, W_key}

\* the call of TestIntegration_ComplexParameters: a path parameter, two query
\* parameters and a body
ComplexArgs ==
    (K_id :> V_active) @@ (K_filter :> V_active) @@ (K_name :> V_7)
    @@ (K_body :> V_object)

\* argument maps with at most MaxArgs arguments, and the named one
ArgMaps ==
    UNION {[ks -> ArgValues] :
              ks \in {S \in SUBSET ArgKeys : Cardinality(S) <= MaxArgs}}
    \cup {ComplexArgs}

\* the three entry points that build and send an upstream request
ExecFunctions == {"createHandler", "executeAPICall", "BuildAndExecuteRequest"}

ExecInputs ==
    [fn : ExecFunctions, apiBaseURL : ExecBaseURLs, apiKey : ExecAPIKeys,
     method : ExecMethods, path : ExecTemplates, args : ArgMaps]

\* the handler of one tool (stdio) runs for one call: it decodes the
\* arguments into a map of its own, builds the request, sends it and turns
\* the reply into its result
CallHandler ==
    /\ call.fn = "createHandler"
    /\ ~ret.done
    /\ \E prepared \in createHandlerRequests(call.apiBaseURL, call.method,
                                             call.path, call.args),
          reply \in UpstreamReplies :
          ret' = Returned([request   |-> NewRequest(prepared, call.apiKey, TRUE),
                           reply     |-> reply,
                           result    |-> createHandlerResult(reply),
                           argsAfter |-> call.args])
    /\ UNCHANGED <<httpVars, runVars, cfgVars, srvVars, call>>

\* HTTPServer.executeAPICall for a found operation, answered by
\* handleToolCallMCP: buildAPIRequest works on the arguments map of the
\* decoded request itself
ExecuteAPICall ==
    /\ call.fn = "executeAPICall"
    /\ ~ret.done
    /\ \E prepared \in createHandlerRequests(call.apiBaseURL, call.method,
                                             call.path, call.args),
          reply \in UpstreamReplies :
          ret' = Returned([request   |-> NewRequest(prepared, call.apiKey, FALSE),
                           reply     |-> reply,
                           result    |-> handleToolCallMCPResponse(
                                             executeHTTPRequestResult(reply)),
                           argsAfter |-> prepared.params])
    /\ UNCHANGED <<httpVars, runVars, cfgVars, srvVars, call>>

\* APIExecutor.BuildAndExecuteRequest: works on the args map it is given
BuildAndExecuteRequest ==
    /\ call.fn = "BuildAndExecuteRequest"
    /\ ~ret.done
    /\ \E prepared \in createHandlerRequests(call.apiBaseURL, call.method,
                                             call.path, call.args),
          reply \in UpstreamReplies :
          ret' = Returned([request   |-> NewRequest(prepared, call.apiKey, TRUE),
                           reply     |-> reply,
                           result    |-> BuildAndExecuteRequestResult(reply),
                           argsAfter |-> prepared.params])
    /\ UNCHANGED <<httpVars, runVars, cfgVars, srvVars, call>>

InitExec ==
    /\ filter = NilFilter
    /\ swagger = {}
    /\ transport = "stdio"
    /\ ServerIdle
    /\ call \in ExecInputs
    /\ ret = NoRet

NextExec ==
    \/ CallHandler
    \/ ExecuteAPICall
    \/ BuildAndExecuteRequest

\* one tool call on every generated method, template and argument map
SpecExec == InitExec /\ [][NextExec]_vars

(***************************************************************************)
(* What the two front-ends advertise for an operation and return for an    *)
(* upstream reply: registerOperation / buildParametersSchema / createHandler*)
(* on stdio, createToolInfo / executeHTTPRequest / handleToolCallMCP on    *)
(* HTTP.  A parameter is modelled by its Name, In, Type and Required       *)
(* fields and by whether it has a Schema (of type object).                 *)
(***************************************************************************)
W_string  == <<"s","t","r","i","n","g">>
W_integer == <<"i","n","t","e","g","e","r">>
W_number  == <<"n","u","m","b","e","r">>
W_boolean == <<"b","o","o","l","e","a","n">>
W_array   == <<"a","r","r","a","y">>
W_object  == <<"o","b","j","e","c","t">>
W_payload == <<"p","a","y","l","o","a","d">>
W_summary == <<"L","i","s","t">>
W_descr   == <<"A","l","l">>

\* the mapping that keeps integer
getJSONType_KeepInteger(swaggerType) ==
    CASE swaggerType = W_integer -> W_integer
      [] swaggerType = W_number  -> W_number
      [] swaggerType = W_boolean -> W_boolean
      [] swaggerType = W_array   -> W_array
      [] swaggerType = W_object  -> W_object
      [] OTHER                   -> W_string

\* getJSONType
getJSONType(swaggerType) ==
    CASE swaggerType = W_integer -> W_number
      [] swaggerType = W_number  -> W_number
      [] swaggerType = W_boolean -> W_boolean
      [] swaggerType = W_array   -> W_array
      [] swaggerType = W_object  -> W_object
      [] OTHER                   -> W_string

Parameter(name, in, type, required, hasSchema) ==
    [Name |-> name, In |-> in, Type |-> type, Required |-> required,
     HasSchema |-> hasSchema]

\* the skip that keeps no header parameter at all
SkippedBySchema_EveryHeader(param) ==
    \/ param.In = "header"
    \/ param.In = "cookie"

\* "Skip header and cookie params"
SkippedBySchema(param) ==
    \/ param.In = "header" /\ ~EqualFold(param.Name, <<"c","o","n","t","e","n","t","-","t","y","p","e">>)
    \/ param.In = "cookie"

\* paramName of buildParametersSchema: "body" for a body parameter
SchemaParamName(param) == IF param.In = "body" THEN K_body ELSE param.Name

\* paramSchema["type"] of buildParametersSchema; <<>> when the key is not set
SchemaParamType(param) ==
    IF param.Type # <<>> THEN getJSONType(param.Type)
    ELSE IF param.HasSchema THEN W_object
    ELSE <<>>

\* SwaggerMCPServer.buildParametersSchema: properties (a later parameter
\* replaces an earlier one of the same name) and required
buildParametersSchema(params) ==
    LET kept  == SelectSeq(params, LAMBDA p : ~SkippedBySchema(p))
        names == {SchemaParamName(kept[i]) : i \in 1..Len(kept)}
        last(n) == CHOOSE i \in 1..Len(kept) :
                       /\ SchemaParamName(kept[i]) = n
                       /\ \A j \in (i + 1)..Len(kept) : SchemaParamName(kept[j]) # n
        req   == SelectSeq(kept, LAMBDA p : p.Required)
    IN  [properties  |-> [n \in names |-> [type |-> SchemaParamType(kept[last(n)])]],
         required    |-> [i \in 1..Len(req) |-> SchemaParamName(req[i])],
         hasRequired |-> Len(req) > 0]

\* "Build description" of registerOperation
registerOperationDescription(method, path, op) ==
    IF op.Summary # <<>> THEN op.Summary
    ELSE IF op.Description # <<>> THEN op.Description
    ELSE method \o <<" ">> \o path

\* description of createToolInfo
createToolInfoDescription(method, path, op) ==
    IF op.Summary # <<>> THEN op.Summary
    ELSE IF op.Description # <<>> THEN op.Description
    ELSE method \o <<" ">> \o path

\* parameters of createToolInfo: one entry per parameter of the operation;
\* type is <<>> when the key is not set
createToolInfoParameters(params) ==
    [i \in 1..Len(params) |->
        [name |-> params[i].Name, in |-> params[i].In,
         required |-> params[i].Required, type |-> params[i].Type]]

\* the parameters an operation may declare
ParityParameters ==
    {Parameter(n, in, t, in = "path", FALSE) :
        n \in {K_id, K_filter}, in \in {"path", "query", "header"},
        t \in {W_string, W_integer}}
    \cup {Parameter(W_payload, "body", <<>>, TRUE, TRUE)}

ParityOperations ==
    [ID : {ID_getUser}, Tags : {<<>>}, Summary : {<<>>, W_summary},
     Description : {<<>>, W_descr},
     Parameters : SeqsUpTo(ParityParameters, MaxParams)]

ParityInputs ==
    [fn : {"advertiseAndAnswer"}, method : {M_GET}, path : {P_usersId},
     op : ParityOperations, reply : UpstreamReplies]

\* the same operation is advertised, and the same upstream reply answered,
\* by both front-ends
ReturnBothFrontEnds ==
    /\ call.fn = "advertiseAndAnswer"
    /\ ~ret.done
    /\ ret' = Returned(
         [stdio |-> [name        |-> registerOperationToolName(call.method, call.path, call.op),
                     description |-> registerOperationDescription(call.method, call.path, call.op),
                     inputSchema |-> buildParametersSchema(call.op.Parameters),
                     result      |-> createHandlerResult(call.reply)],
          http  |-> [name        |-> getToolName(call.method, call.path, call.op),
                     description |-> createToolInfoDescription(call.method, call.path, call.op),
                     parameters  |-> createToolInfoParameters(call.op.Parameters),
                     result      |-> handleToolCallMCPResponse(
                                         executeHTTPRequestResult(call.reply))]])
    /\ UNCHANGED <<httpVars, runVars, cfgVars, srvVars, call>>

InitParity ==
    /\ filter = NilFilter
    /\ swagger = {}
    /\ transport = "stdio"
    /\ ServerIdle
    /\ call \in ParityInputs
    /\ ret = NoRet

NextParity == ReturnBothFrontEnds

\* every generated operation and reply through both front-ends
SpecParity == InitParity /\ [][NextParity]_vars

(***************************************************************************)
(* Concurrent invocations of one tool.  The handler closure shares method, *)
(* path, base URL and API key; params, bodyData, url and the request are   *)
(* locals of each invocation.  An invocation advances by the steps of      *)
(* createHandler (stdio) or of executeAPICall (HTTP); its context may be   *)
(* cancelled at any time before it ends.                                    *)
(***************************************************************************)
NoInvocations == <<>>

\* the arguments of invocation i: its own path parameter and query parameter
RunValue(letter, i) == JString(<<letter>> \o Itoa(i))
RunArgs(i) == (K_id :> RunValue("a", i)) @@ (K_filter :> RunValue("b", i))
\* the same with a path parameter that is no valid URL escape
RunArgsBadEscape(i) == (K_id :> RunValue("%", i) ) @@ (K_filter :> RunValue("b", i))

\* the arguments another invocation runs with instead of its own
ArgumentsOf_Shared(invs, i) == invs[1].args

\* the arguments decoded from the request of invocation i
ArgumentsOf(invs, i) == invs[i].args

Received(args) ==
    [args |-> args, pc |-> "received", params |-> <<>>, bodyData |-> JNull,
     url |-> <<>>, todo |-> {}, request |-> <<>>, sent |-> 0,
     cancelled |-> FALSE, reply |-> <<>>, outcome |-> <<>>]

RunFunctions == {"createHandler", "executeAPICall"}
RunInputs ==
    [fn : RunFunctions, apiBaseURL : {B_api}, apiKey : {<<>>},
     method : {M_GET, M_POST}, path : {P_petsId}]

\* url.Parse of http.NewRequest rejects a % that starts no escape
InvalidURL(url) == \E i \in 1..Len(url) : url[i] = "%"

\* the request is bound to the caller's context (NewRequestWithContext)
BoundToContext(fn) == fn = "createHandler"

\* what the front-end returns for an error of the invocation
FailedOutcome(fn, err) ==
    IF fn = "createHandler" THEN [err |-> err, isError |-> FALSE, text |-> <<>>]
    ELSE handleToolCallMCPResponse([err |-> err, value |-> JNull])

\* what the front-end returns for an upstream reply
ReplyOutcome(fn, reply) ==
    IF fn = "createHandler" THEN createHandlerResult(reply)
    ELSE handleToolCallMCPResponse(executeHTTPRequestResult(reply))

\* client.Do is reached once, from the prepared request, without one that
\* is already in flight being sent again
MaySend_Again(inv) == inv.pc \in {"prepared", "inflight"}

\* client.Do is reached once, from the prepared request
MaySend(inv) == inv.pc = "prepared"

\* the arguments are decoded, the body is taken out, url := apiBaseURL + path
Begin ==
    \E i \in DOMAIN invocations :
        /\ invocations[i].pc = "received"
        /\ LET extracted == ExtractBody(ArgumentsOf(invocations, i))
           IN  invocations' = [invocations EXCEPT ![i] =
                   [@ EXCEPT !.pc = "replacing",
                             !.params = extracted.params,
                             !.bodyData = extracted.bodyData,
                             !.url = call.apiBaseURL \o call.path,
                             !.todo = DOMAIN extracted.params]]
        /\ UNCHANGED <<httpVars, cfgVars, srvVars, obsVars>>

\* one iteration of "Replace path parameters"
ReplaceNext ==
    \E i \in DOMAIN invocations :
        /\ invocations[i].pc = "replacing"
        /\ \E key \in invocations[i].todo :
              LET inv      == invocations[i]
                  replaced == ReplacePathParameters(inv.url, inv.params, <<key>>)
              IN  invocations' = [invocations EXCEPT ![i] =
                      [@ EXCEPT !.url = replaced.url,
                                !.params = replaced.params,
                                !.todo = inv.todo \ {key}]]
        /\ UNCHANGED <<httpVars, cfgVars, srvVars, obsVars>>

\* "Prepare request" and http.NewRequest, which may fail
Prepare ==
    \E i \in DOMAIN invocations :
        /\ invocations[i].pc = "replacing"
        /\ invocations[i].todo = {}
        /\ LET inv == invocations[i]
           IN  \E order \in OrdersOf(DOMAIN inv.params) :
                 LET prepared == PrepareRequest(call.method, inv.url, inv.bodyData,
                                                inv.params, order)
                 IN  IF InvalidURL(prepared.url)
                     THEN invocations' = [invocations EXCEPT ![i] =
                              [@ EXCEPT !.pc = "done",
                                        !.outcome = <<FailedOutcome(call.fn,
                                                        "failed to create request")>>]]
                     ELSE invocations' = [invocations EXCEPT ![i] =
                              [@ EXCEPT !.pc = "prepared",
                                        !.request = <<NewRequest(prepared, call.apiKey,
                                                        BoundToContext(call.fn))>>]]
        /\ UNCHANGED <<httpVars, cfgVars, srvVars, obsVars>>

\* client.Do: the request goes out, unless its context is already cancelled
Send ==
    \E i \in DOMAIN invocations :
        /\ MaySend(invocations[i])
        /\ IF invocations[i].request[1].ctx /\ invocations[i].cancelled
           THEN invocations' = [invocations EXCEPT ![i] =
                    [@ EXCEPT !.pc = "done",
                              !.outcome = <<FailedOutcome(call.fn, "request failed")>>]]
           ELSE invocations' = [invocations EXCEPT ![i] =
                    [@ EXCEPT !.pc = "inflight", !.sent = @ + 1]]
        /\ UNCHANGED <<httpVars, cfgVars, srvVars, obsVars>>

\* the upstream API answers the request in flight (or the transport fails);
\* the invocation returns its result or error
Reply ==
    \E i \in DOMAIN invocations, reply \in UpstreamReplies :
        /\ invocations[i].pc = "inflight"
        /\ ~(invocations[i].request[1].ctx /\ invocations[i].cancelled)
        /\ invocations' = [invocations EXCEPT ![i] =
               [@ EXCEPT !.pc = "done",
                         !.reply = <<reply>>,
                         !.outcome = <<ReplyOutcome(call.fn, reply)>>]]
        /\ UNCHANGED <<httpVars, cfgVars, srvVars, obsVars>>

\* the caller's context is cancelled before the invocation has ended
Cancel ==
    \E i \in DOMAIN invocations :
        /\ invocations[i].pc # "done"
        /\ ~invocations[i].cancelled
        /\ invocations' = [invocations EXCEPT ![i] = [@ EXCEPT !.cancelled = TRUE]]
        /\ UNCHANGED <<httpVars, cfgVars, srvVars, obsVars>>

\* a request in flight that is bound to a cancelled context is aborted:
\* client.Do returns the context's error
Abort ==
    \E i \in DOMAIN invocations :
        /\ invocations[i].pc = "inflight"
        /\ invocations[i].request[1].ctx
        /\ invocations[i].cancelled
        /\ invocations' = [invocations EXCEPT ![i] =
               [@ EXCEPT !.pc = "done",
                         !.outcome = <<FailedOutcome(call.fn, "request failed")>>]]
        /\ UNCHANGED <<httpVars, cfgVars, srvVars, obsVars>>

InitRun ==
    /\ filter = NilFilter
    /\ swagger = {}
    /\ transport = "stdio"
    /\ phase = "config"
    /\ tools = {}
    /\ resp = NoResp
    /\ upstream = {}
    /\ call \in RunInputs
    /\ ret = NoRet
    /\ httpServer = NotStarted
    /\ \E bad \in SUBSET (1..MaxInvocations) :
          invocations = [i \in 1..MaxInvocations |->
                            Received(IF i \in bad THEN RunArgsBadEscape(i) ELSE RunArgs(i))]

NextRun ==
    \/ Begin
    \/ ReplaceNext
    \/ Prepare
    \/ Send
    \/ Reply
    \/ Cancel
    \/ Abort

\* MaxInvocations concurrent invocations of one tool
SpecRun == InitRun /\ [][NextRun]_vars

(***************************************************************************)
(* buildParametersSchema on generated parameter lists.                     *)
(***************************************************************************)
W_ContentType == <<"C","o","n","t","e","n","t","-","T","y","p","e">>
W_contenttype == <<"c","o","n","t","e","n","t","-","t","y","p","e">>
W_file        == <<"f","i","l","e">>

\* the declared types: the ones getJSONType names, one it does not, and none
DeclaredTypes ==
    {<<>>, W_string, W_integer, W_number, W_boolean, W_array, W_object, W_file}

\* one parameter of every name, location, declared type and schema
SingleParameters ==
    {Parameter(n, in, t, r, s) :
        n \in {K_id, W_ContentType, W_contenttype},
        in \in {"path", "query", "header", "cookie", "body", "formData"},
        t \in DeclaredTypes, r \in BOOLEAN, s \in BOOLEAN}

\* the parameters the generated lists are made of
ListedParameters ==
    {Parameter(n, in, W_integer, r, FALSE) :
        n \in {K_id, W_ContentType},
        in \in {"query", "header", "cookie", "body"}, r \in BOOLEAN}

SchemaInputs ==
    [fn : {"buildParametersSchema"},
     params : {<<p>> : p \in SingleParameters}
              \cup SeqsUpTo(ListedParameters, MaxParams)]

\* the input schema of one parameter list is built
ReturnParametersSchema ==
    /\ call.fn = "buildParametersSchema"
    /\ ~ret.done
    /\ ret' = Returned(buildParametersSchema(call.params))
    /\ UNCHANGED <<httpVars, runVars, cfgVars, srvVars, call>>

InitSchema ==
    /\ filter = NilFilter
    /\ swagger = {}
    /\ transport = "stdio"
    /\ ServerIdle
    /\ call \in SchemaInputs
    /\ ret = NoRet

NextSchema == ReturnParametersSchema

\* the input schema of every generated parameter list
SpecSchema == InitSchema /\ [][NextSchema]_vars

(***************************************************************************)
(* Construction: validateConfig, inferBaseURL, New and the command line.   *)
(***************************************************************************)
W_https      == <<"h","t","t","p","s">>
W_http       == <<"h","t","t","p">>
W_schemeSep  == <<":","/","/">>
W_host       == <<"a",".","b">>
W_v1         == <<"/","v","1">>
W_serverName == <<"s","w","a","g","g","e","r","-","m","c","p","-","s","e","r","v","e","r">>
W_v020       == <<"v","0",".","2",".","0">>

\* a swagger document: host, schemes, base path and operations
Document(host, schemes, basePath, entries) ==
    [Host |-> host, Schemes |-> schemes, BasePath |-> basePath, entries |-> entries]

\* Config: SwaggerSpec is set or nil; SwaggerData is absent, parseable or not;
\* doc is the document that SwaggerSpec holds or SwaggerData describes
Config(hasSpec, data, doc, name, version, hasTransport, apiBaseURL) ==
    [isNil |-> FALSE, SwaggerSpec |-> hasSpec, SwaggerData |-> data, doc |-> doc,
     Name |-> name, Version |-> version, Transport |-> hasTransport,
     APIBaseURL |-> apiBaseURL]

NoDocument == Document(<<>>, <<>>, <<>>, {})
NilConfig  == [Config(FALSE, "none", NoDocument, <<>>, <<>>, FALSE, <<>>)
                  EXCEPT !.isNil = TRUE]

\* DefaultConfig()
DefaultConfig == Config(FALSE, "none", NoDocument, W_serverName, W_v020, TRUE, <<>>)

\* the variant that looks at the name before the swagger input
validateConfig_NameFirst(config) ==
    IF config.isNil THEN "config cannot be nil"
    ELSE IF config.Name = <<>> THEN "server name cannot be empty"
    ELSE IF ~config.SwaggerSpec /\ config.SwaggerData = "none"
    THEN "either SwaggerSpec or SwaggerData must be provided"
    ELSE IF config.Version = <<>> THEN "server version cannot be empty"
    ELSE IF ~config.Transport THEN "transport cannot be nil"
    ELSE "nil"

\* validateConfig: the error, or "nil"
validateConfig(config) ==
    IF config.isNil THEN "config cannot be nil"
    ELSE IF ~config.SwaggerSpec /\ config.SwaggerData = "none"
    THEN "either SwaggerSpec or SwaggerData must be provided"
    ELSE IF config.Name = <<>> THEN "server name cannot be empty"
    ELSE IF config.Version = <<>> THEN "server version cannot be empty"
    ELSE IF ~config.Transport THEN "transport cannot be nil"
    ELSE "nil"

\* inferBaseURL
inferBaseURL(doc) ==
    IF doc.Host # <<>>
    THEN LET scheme == IF Len(doc.Schemes) > 0 THEN doc.Schemes[1] ELSE W_https
         IN  scheme \o W_schemeSep \o doc.Host \o doc.BasePath
    ELSE <<>>

\* no server is returned
NilServer == [isNil |-> TRUE, apiBaseURL |-> <<>>, tools |-> {}]

\* NewSwaggerMCPServerWithFilter: the server with its tools registered
NewSwaggerMCPServerWithFilter(apiBaseURL, doc, f, order) ==
    [isNil |-> FALSE, apiBaseURL |-> apiBaseURL,
     tools |-> RegisterTools({}, f, EntriesInOrder(doc.entries, order))]

\* New(config): the error ("nil" for none) and the server
NewResult(given, f, order) ==
    LET config  == IF given.isNil THEN DefaultConfig ELSE given
        invalid == validateConfig(config)
        parses  == ~config.SwaggerSpec /\ config.SwaggerData # "none"
        baseURL == IF config.APIBaseURL = <<>> THEN inferBaseURL(config.doc)
                   ELSE config.APIBaseURL
    IN  IF invalid # "nil"
        THEN [err |-> "invalid configuration", cause |-> invalid, server |-> NilServer]
        ELSE IF parses /\ config.SwaggerData = "invalid"
        THEN [err |-> "failed to parse swagger spec", cause |-> "nil",
              server |-> NilServer]
        ELSE [err |-> "nil", cause |-> "nil",
              server |-> NewSwaggerMCPServerWithFilter(baseURL, config.doc, f, order)]

\* main of the command: -api-base and the parsed specification
mainResult(apiBase, doc, order) ==
    IF apiBase = <<>> /\ doc.Host = <<>>
    THEN [err |-> "API base URL not specified and cannot be determined from spec",
          cause |-> "nil", server |-> NilServer]
    ELSE [err |-> "nil", cause |-> "nil",
          server |-> NewSwaggerMCPServerWithFilter(
                        IF apiBase = <<>> THEN inferBaseURL(doc) ELSE apiBase,
                        doc, NilFilter, order)]

\* the documents and configurations a server is constructed from
NewDocuments ==
    {Document(h, s, b, SwaggerAdmin) :
        h \in {<<>>, W_host}, s \in {<<>>, <<W_http>>, <<W_http, W_https>>},
        b \in {<<>>, W_v1}}
NewConfigs ==
    {Config(hs, d, doc, n, v, t, u) :
        hs \in BOOLEAN, d \in {"none", "valid", "invalid"}, doc \in NewDocuments,
        n \in {<<>>, W_serverName}, v \in {<<>>, W_v020}, t \in BOOLEAN,
        u \in {<<>>, B_api}}
    \cup {NilConfig}
NewInputs ==
    [fn : {"New"}, config : NewConfigs]
    \cup [fn : {"main"}, apiBase : {<<>>, B_api}, doc : NewDocuments]

\* New(config) returns
CallNew ==
    /\ call.fn = "New"
    /\ ~ret.done
    /\ \E order \in PathOrders(call.config.doc.entries) :
          ret' = Returned(NewResult(call.config, filter, order))
    /\ UNCHANGED <<httpVars, runVars, cfgVars, srvVars, call>>

\* the command starts: it creates the server or exits
CallMain ==
    /\ call.fn = "main"
    /\ ~ret.done
    /\ \E order \in PathOrders(call.doc.entries) :
          ret' = Returned(mainResult(call.apiBase, call.doc, order))
    /\ UNCHANGED <<httpVars, runVars, cfgVars, srvVars, call>>

InitNew ==
    /\ filter = NilFilter
    /\ swagger = {}
    /\ transport = "stdio"
    /\ ServerIdle
    /\ call \in NewInputs
    /\ ret = NoRet

NextNew ==
    \/ CallNew
    \/ CallMain

\* the construction of a server from every generated configuration
SpecNew == InitNew /\ [][NextNew]_vars

(***************************************************************************)
(* HTTPServer.Start: the listener, the context and the shutdown goroutine. *)
(***************************************************************************)
\* NewHTTPServer: host and path default to localhost and /mcp; Start has not
\* been called, portFree says whether the address can be listened on
NewHTTPServer(host, path, portFree) ==
    [pc         |-> "created",
     host       |-> IF host = "" THEN "localhost" ELSE host,
     path       |-> IF path = "" THEN "/mcp" ELSE path,
     portFree   |-> portFree,
     ctx        |-> "live",
     watcher    |-> "none",
     inShutdown |-> FALSE,
     listening  |-> FALSE,
     active     |-> 0,
     accepted   |-> 0,
     result     |-> "none"]

\* the result that reports every error of ListenAndServe
StartResult_ReportsClosed(err) ==
    IF err # "nil" THEN "HTTP server error" ELSE "nil"

\* what Start returns for the error of ListenAndServe
StartResult(err) ==
    IF err # "nil" /\ err # "ErrServerClosed" THEN "HTTP server error" ELSE "nil"

\* Start up to ListenAndServe: the mux and the http.Server are set up and the
\* goroutine waiting for ctx.Done() is started
StartServer ==
    /\ httpServer.pc = "created"
    /\ httpServer' = [httpServer EXCEPT !.pc = "ListenAndServe", !.watcher = "waiting"]
    /\ UNCHANGED <<cfgVars, srvVars, obsVars, runVars>>

\* ListenAndServe begins: server closed if Shutdown was called already, a
\* listen error if the address cannot be bound, otherwise it serves
Listen ==
    /\ httpServer.pc = "ListenAndServe"
    /\ httpServer' =
          IF httpServer.inShutdown
          THEN [httpServer EXCEPT !.pc = "returned",
                                  !.result = StartResult("ErrServerClosed")]
          ELSE IF ~httpServer.portFree
          THEN [httpServer EXCEPT !.pc = "returned",
                                  !.result = StartResult("listen error")]
          ELSE [httpServer EXCEPT !.pc = "Serve", !.listening = TRUE]
    /\ UNCHANGED <<cfgVars, srvVars, obsVars, runVars>>

\* a connection is accepted and its request handed to the mux
Accept ==
    /\ httpServer.pc = "Serve"
    /\ httpServer.listening
    /\ httpServer.active < MaxConnections
    /\ httpServer.accepted < MaxAccepted
    /\ httpServer' = [httpServer EXCEPT !.active = @ + 1, !.accepted = @ + 1]
    /\ UNCHANGED <<cfgVars, srvVars, obsVars, runVars>>

\* a handler answers and its connection goes idle
Respond ==
    /\ httpServer.pc # "none"
    /\ httpServer.active > 0
    /\ httpServer' = [httpServer EXCEPT !.active = @ - 1]
    /\ UNCHANGED <<cfgVars, srvVars, obsVars, runVars>>

\* the caller cancels the context
CancelContext ==
    /\ httpServer.pc # "none"
    /\ httpServer.ctx = "live"
    /\ httpServer' = [httpServer EXCEPT !.ctx = "cancelled"]
    /\ UNCHANGED <<cfgVars, srvVars, obsVars, runVars>>

\* the goroutine: ctx.Done() is closed and Shutdown is called, which closes
\* the listener
WatchContext ==
    /\ httpServer.watcher = "waiting"
    /\ httpServer.ctx = "cancelled"
    /\ httpServer' = [httpServer EXCEPT !.watcher = "Shutdown", !.inShutdown = TRUE,
                                        !.listening = FALSE]
    /\ UNCHANGED <<cfgVars, srvVars, obsVars, runVars>>

\* Shutdown returns once no connection is active
ShutdownReturns ==
    /\ httpServer.watcher = "Shutdown"
    /\ httpServer.active = 0
    /\ httpServer' = [httpServer EXCEPT !.watcher = "done"]
    /\ UNCHANGED <<cfgVars, srvVars, obsVars, runVars>>

\* ListenAndServe returns ErrServerClosed after Shutdown was called
ServeReturns ==
    /\ httpServer.pc = "Serve"
    /\ httpServer.inShutdown
    /\ httpServer' = [httpServer EXCEPT !.pc = "returned",
                                        !.result = StartResult("ErrServerClosed")]
    /\ UNCHANGED <<cfgVars, srvVars, obsVars, runVars>>

InitStart ==
    /\ filter = NilFilter
    /\ swagger = {}
    /\ transport = "http"
    /\ phase = "config"
    /\ tools = {}
    /\ resp = NoResp
    /\ upstream = {}
    /\ invocations = <<>>
    /\ call = NoCall
    /\ ret = NoRet
    /\ httpServer \in {NewHTTPServer(host, path, portFree) :
                          host \in {"", "0.0.0.0"}, path \in {"", "/api"},
                          portFree \in BOOLEAN}

NextStart ==
    \/ StartServer
    \/ Listen
    \/ Accept
    \/ Respond
    \/ CancelContext
    \/ WatchContext
    \/ ShutdownReturns
    \/ ServeReturns

\* one call of HTTPServer.Start
SpecStart == InitStart /\ [][NextStart]_vars

\* the same with the scheduling Go gives: Start itself, the goroutine and
\* ListenAndServe each take their next step once it stays possible
SpecStartFair ==
    /\ SpecStart
    /\ WF_vars(StartServer)
    /\ WF_vars(Listen)
    /\ WF_vars(WatchContext)
    /\ WF_vars(ServeReturns)

(***************************************************************************)
(* Properties of the filter.                                               *)
(***************************************************************************)
\* a call of fn has returned
Done(fn) == call.fn = fn /\ ret.done

\* p matches s inside one segment: '*' stands for any characters
RECURSIVE SegGlob(_, _)
SegGlob(p, s) ==
    IF ~(\E i \in 1..Len(p) : p[i] = "*") THEN p = s
    ELSE LET k   == CHOOSE i \in 1..Len(p) : p[i] = "*" /\ \A j \in 1..(i - 1) : p[j] # "*"
             lit == SubSeq(p, 1, k - 1)
         IN  /\ Len(lit) <= Len(s)
             /\ SubSeq(s, 1, Len(lit)) = lit
             /\ \E n \in 0..(Len(s) - Len(lit)) : SegGlob(Drop(p, k), Drop(s, Len(lit) + n))

\* the segments between the '/' of s
RECURSIVE Segments(_)
Segments(s) ==
    IF \A i \in 1..Len(s) : s[i] # "/" THEN <<s>>
    ELSE LET k == CHOOSE i \in 1..Len(s) : s[i] = "/" /\ \A j \in 1..(i - 1) : s[j] # "/"
         IN  <<SubSeq(s, 1, k - 1)>> \o Segments(SubSeq(s, k + 1, Len(s)))

\* a whole pattern segment {name} stands for '*'
SegmentPattern(seg) ==
    IF Len(seg) >= 2 /\ seg[1] = "{" /\ seg[Len(seg)] = "}" THEN <<"*">> ELSE seg

\* single-segment glob: segment by segment, the path taken as written
GlobBySegment(path, pattern) ==
    LET ps == Segments(pattern)
        ns == Segments(path)
    IN  /\ Len(ps) = Len(ns)
        /\ \A i \in 1..Len(ps) : SegGlob(SegmentPattern(ps[i]), ns[i])

\* a and b are equal up to the case of their letters
SameIgnoringCase(a, b) ==
    /\ Len(a) = Len(b)
    /\ \A i \in 1..Len(a) :
          \/ a[i] = b[i]
          \/ \E k \in 1..26 : {a[i], b[i]} = {UpperLetters[k], LowerLetters[k]}

\* C1: a non-empty IncludeOnlyPaths excludes every operation whose path is not
\* exactly one of its entries, whatever the other rules, method, ID and tags
C1_IncludeOnlyPathsStrict ==
    (/\ Done("ShouldExcludeOperation")
     /\ ~filter.isNil
     /\ filter.IncludeOnlyPaths # <<>>
     /\ call.path \notin Range(filter.IncludeOnlyPaths))
    => ret.val = TRUE

\* C1 witness: IncludeOnlyPaths = ["/users"] and nothing else, asked about
\* /orders, which no exclude rule touches
C1_Witness ==
    /\ Done("ShouldExcludeOperation")
    /\ filter = [EmptyFilter EXCEPT !.IncludeOnlyPaths = <<P_users>>]
    /\ call.path = P_orders
    /\ ret.val = TRUE

\* the operation passes both allow-lists
PassesAllowLists(f, path, op) ==
    /\ f.IncludeOnlyPaths = <<>> \/ path \in Range(f.IncludeOnlyPaths)
    /\ \/ f.IncludeOnlyOperationIDs = <<>>
       \/ op.ID = <<>>
       \/ op.ID \in Range(f.IncludeOnlyOperationIDs)

\* one of the five exclude rules matches
SomeExcludeRuleMatches(f, method, path, op) ==
    \/ path \in Range(f.ExcludePaths)
    \/ \E q \in Range(f.ExcludePathPatterns) : GlobBySegment(path, q)
    \/ op.ID # <<>> /\ op.ID \in Range(f.ExcludeOperationIDs)
    \/ \E m \in Range(f.ExcludeMethods) : SameIgnoringCase(m, method)
    \/ \E t \in Range(op.Tags), e \in Range(f.ExcludeTags) : SameIgnoringCase(t, e)

C3_SingleSegmentGlob ==
    Done("matchesPattern") =>
        /\ ret.val = GlobBySegment(call.path, call.pattern)
        /\ (call.pattern = P_adminStar /\ call.path = P_adminSettings) => ret.val = TRUE
        /\ (call.pattern = P_adminStar
              /\ call.path \in {P_publicSettings, P_admin, P_adminUsers123})
             => ret.val = FALSE

\* C3 witness: /users/{id} used as a pattern matches /users/7
C3_Witness ==
    /\ Done("matchesPattern")
    /\ call.pattern = P_usersId
    /\ call.path = P_users7
    /\ ret.val = TRUE

(***************************************************************************)
(* Properties of the tool names.                                           *)
(***************************************************************************)
\* the lower-case form of one character
LowerOf(c) ==
    IF \E k \in 1..26 : UpperLetters[k] = c
    THEN LowerLetters[CHOOSE k \in 1..26 : UpperLetters[k] = c]
    ELSE c

NotBrace(c) == c \notin {"{", "}"}

\* the name the claim derives: one pass over the ID, or over the method and
\* the path template
DerivedName(method, path, id) ==
    IF id # <<>>
    THEN [i \in 1..Len(id) |-> IF id[i] = " " THEN "_" ELSE LowerOf(id[i])]
    ELSE LET kept == SelectSeq(path, NotBrace)
             sep  == [i \in 1..Len(kept) |-> IF kept[i] = "/" THEN "_" ELSE kept[i]]
             trim == IF Len(sep) > 0 /\ sep[1] = "_" THEN SubSeq(sep, 2, Len(sep)) ELSE sep
         IN  [i \in 1..Len(method) |-> LowerOf(method[i])] \o <<"_">> \o trim

\* C6: the registered tool name is the lower-cased ID with spaces replaced by
\* '_' when there is an ID, and otherwise lower(method) + '_' + the path with
\* '/' replaced by '_', braces removed and one leading '_' trimmed
C6_ToolNameDerivation ==
    Done("toolName") =>
        /\ ret.val.stdio = DerivedName(call.method, call.path, call.op.ID)
        /\ call.op.ID = ID_getUserById =>
               ret.val.stdio = <<"g","e","t","u","s","e","r","b","y","i","d">>
        /\ (call.op.ID = <<>> /\ call.method = M_POST /\ call.path = P_usersIdPosts) =>
               ret.val.stdio = <<"p","o","s","t","_">> \o W_users \o <<"_","i","d","_">>
                               \o W_posts
        /\ (call.op.ID = <<>> /\ call.method = M_GET /\ call.path = P_usersIdPostsPostId) =>
               ret.val.stdio = <<"g","e","t","_">> \o W_users \o <<"_","i","d","_">>
                               \o W_posts \o <<"_","p","o","s","t","I","d">>

\* C6 witness: GET /users/{id}/posts/{postId} without an ID keeps the capital
\* letter of postId
C6_Witness ==
    /\ Done("toolName")
    /\ call.op.ID = <<>>
    /\ call.method = M_GET
    /\ call.path = P_usersIdPostsPostId
    /\ ret.val.stdio = <<"g","e","t","_">> \o W_users \o <<"_","i","d","_">>
                        \o W_posts \o <<"_","p","o","s","t","I","d">>

\* C7: registration, the HTTP front-end and ListTools derive the same name
\* for the same (method, path, operation)
C7_SameNameEverywhere ==
    Done("toolName") =>
        /\ ret.val.stdio = ret.val.http
        /\ ret.val.http = ret.val.list

\* C7 witness: the ID "get user" named get_user by all three
C7_Witness ==
    /\ Done("toolName")
    /\ call.op.ID = ID_get0user
    /\ ret.val.stdio = ID_get_user
    /\ ret.val.http = ID_get_user
    /\ ret.val.list = ID_get_user

(***************************************************************************)
(* Properties of the server.                                               *)
(***************************************************************************)
\* New has returned a server
Built == phase \in {"built", "serving"}

\* the operations of the specification the configured filter excludes
ExcludedEntries ==
    {e \in swagger : ShouldExcludeOperation(filter, e.method, e.path, e.op)}

\* the tool or request x belongs to an excluded operation
OfExcludedEntry(x) ==
    \E e \in ExcludedEntries : e.method = x.method /\ e.path = x.path

\* C4 (as claimed): after WithExcludePaths("/admin/*") the built server has no
\* tool for an operation at /admin/<one segment>
C4_ExcludePathsWildcard ==
    (Built /\ ~filter.isNil /\ P_adminStar \in Range(filter.ExcludePaths))
    => \A t \in tools : ~GlobBySegment(t.path, P_adminStar)

\* C5 (as claimed): over HTTP no excluded operation is listed by /tools or
\* tools/list, and no tools/call issues an upstream request for one
C5_HTTPHonoursFilter ==
    (Serving("http") /\ resp.via = "http")
    => /\ resp.endpoint \in {"/tools", "tools/list"} =>
              \A t \in resp.tools : ~OfExcludedEntry(t)
       /\ resp.endpoint = "tools/call" =>
              \A u \in upstream : ~OfExcludedEntry(u)

\* C8 (as claimed): no server is built from accepted operations of which two
\* derive the same tool name
C8_DuplicateNamesRejected ==
    Built =>
        \A a, b \in swagger \ ExcludedEntries :
            a # b => RegisteredNameOf[a] # RegisteredNameOf[b]

(***************************************************************************)
(* Properties of the request builder.                                      *)
(***************************************************************************)
\* the arguments whose placeholder occurs in the path template
TemplateKeys(path, args) ==
    {k \in DOMAIN args \ {K_body} : Contains(path, Placeholder(k))}

\* the template with every placeholder of a template key replaced by the
\* text of its value, in one pass over the template
RECURSIVE FillTemplate(_, _)
FillTemplate(path, args) ==
    IF path = <<>> THEN <<>>
    ELSE LET hits == {k \in TemplateKeys(path, args) :
                         HasPrefix(path, Placeholder(k))}
         IN  IF hits # {}
             THEN LET k == CHOOSE x \in hits : TRUE
                  IN  Sprint(args[k])
                      \o FillTemplate(Drop(path, Len(Placeholder(k))), args)
             ELSE <<Head(path)>> \o FillTemplate(Tail(path), args)

\* key=value of the keys in order, joined by "&"
QueryOf(args, order) ==
    Join([i \in 1..Len(order) |-> order[i] \o <<"=">> \o Sprint(args[order[i]])],
         <<"&">>)

\* C9 (as claimed): for a method other than POST, PUT and PATCH every
\* argument whose placeholder occurs in the path template is substituted into
\* the URL path and sent nowhere else, every other argument except "body" is
\* appended as key=value in the query string, and no request body is attached
C9_PathAndQueryArguments ==
    (Done("createHandler") /\ ~(call.method \in {M_POST, M_PUT, M_PATCH}))
    => LET request   == ret.val.request
           queryKeys == DOMAIN call.args
                            \ ({K_body} \cup TemplateKeys(call.path, call.args))
           pathURL   == call.apiBaseURL \o FillTemplate(call.path, call.args)
       IN  /\ ~request.hasBody
           /\ IF queryKeys = {} THEN request.url = pathURL
              ELSE \E order \in OrdersOf(queryKeys) :
                      request.url = pathURL \o <<"?">> \o QueryOf(call.args, order)

\* the arguments the handler is left with are arguments of the call
RemainingOfCall ==
    LET remaining == ret.val.request.params
    IN  /\ DOMAIN remaining \subseteq DOMAIN call.args \ {K_body}
        /\ \A k \in DOMAIN remaining : remaining[k] = call.args[k]

\* the body rules of POST, PUT and PATCH, for "a body was supplied" read as
\* supplied
BodyRules(supplied) ==
    LET request   == ret.val.request
        remaining == request.params
    IN  /\ RemainingOfCall
        /\ ~Contains(request.url, <<"?">>)
        /\ IF supplied
           THEN request.hasBody /\ request.body = Marshal(call.args[K_body])
           ELSE IF DOMAIN remaining # {}
           THEN request.hasBody /\ request.body = Marshal(MapValue(remaining))
           ELSE ~request.hasBody /\ request.body = <<>>

\* C10 (as claimed): for POST, PUT and PATCH, if a "body" argument was
\* supplied the request body is the JSON encoding of that value alone;
\* otherwise, if any arguments remain after path substitution, it is the JSON
\* encoding of the remaining argument map; otherwise no body is sent; and the
\* URL gets no query string
C10_BodyArgumentAlone ==
    (Done("createHandler") /\ call.method \in {M_POST, M_PUT, M_PATCH})
    => BodyRules(K_body \in DOMAIN call.args)

\* C10 (amended): the same, for a "body" argument whose value is not JSON
\* null; a null "body" is dropped and the rules for no "body" argument apply
C10_NonNullBodyArgumentAlone ==
    (Done("createHandler") /\ call.method \in {M_POST, M_PUT, M_PATCH})
    => BodyRules(K_body \in DOMAIN call.args /\ call.args[K_body] # JNull)

\* C10 witness: POST /users with {"body": null, "name": "active"} sends
\* {"name":"active"} and no query string
C10_Witness ==
    /\ Done("createHandler")
    /\ call.method = M_POST
    /\ call.path = P_users
    /\ call.args = (K_body :> JNull) @@ (K_name :> V_active)
    /\ ret.val.request.url = B_api \o P_users
    /\ ret.val.request.hasBody
    /\ ret.val.request.body =
           <<"{", "\"">> \o K_name \o <<"\"", ":", "\"">> \o W_active \o <<"\"", "}">>

\* one of the three entry points has returned
ExecDone == ret.done /\ call.fn \in ExecFunctions

\* the parameters the sample operations declare "in: query" (tags and limit
\* of TestIntegration_ComplexParameters)
QueryLocated == {K_filter, K_name}

\* key=value is in the query string of url
InQueryString(url, key, value) ==
    \/ Contains(url, <<"?">> \o key \o <<"=">> \o Sprint(value))
    \/ /\ Contains(url, <<"?">>)
       /\ Contains(url, <<"&">> \o key \o <<"=">> \o Sprint(value))

\* C11 (as claimed): for every HTTP method, an argument for a query-located
\* parameter is in the query string of the upstream request
C11_QueryParametersEveryMethod ==
    ExecDone =>
        \A k \in (DOMAIN call.args \cap QueryLocated)
                     \ TemplateKeys(call.path, call.args) :
            InQueryString(ret.val.request.url, k, call.args[k])

\* C12 (as claimed): after the executor returns, the argument map it was
\* given holds the same keys and values as before the call
C12_ArgumentsNotMutated ==
    ExecDone => ret.val.argsAfter = call.args

\* C14: a tool handler returns, for an upstream response with status >= 400,
\* a result with isError = true and the text "API error <status>: <body>" and
\* no error; for a response with status < 400, a result with isError = false
C14_ErrorStatusIsResult ==
    (Done("createHandler") /\ ret.val.reply.kind = "response")
    => LET reply  == ret.val.reply
           result == ret.val.result
       IN  /\ result.err = "none"
           /\ result.isError = (reply.status >= 400)
           /\ reply.status >= 400 =>
                  result.text = <<"A","P","I"," ","e","r","r","o","r"," ">>
                                \o Itoa(reply.status) \o <<":"," ">> \o reply.body.text

\* C14 witness: a 404 with body oops gives isError and "API error 404: oops"
C14_Witness ==
    /\ Done("createHandler")
    /\ ret.val.reply = Response(404, TextBody(W_oops))
    /\ ret.val.result.err = "none"
    /\ ret.val.result.isError
    /\ ret.val.result.text = <<"A","P","I"," ","e","r","r","o","r"," ",
                               "4","0","4",":"," ","o","o","p","s">>

\* the values of the header called name
HeaderValues(request, name) ==
    {h.value : h \in {x \in request.headers : x.name = name}}

\* C20: every upstream request carries Accept: application/json; it carries
\* Content-Type: application/json exactly when it has a body; with a non-empty
\* API key it carries X-API-Key: <key> and Authorization: Bearer <key>, with
\* an empty one neither
C20_RequestHeaders ==
    ExecDone =>
        LET request == ret.val.request
            json    == <<"a","p","p","l","i","c","a","t","i","o","n","/","j","s","o","n">>
        IN  /\ HeaderValues(request, "Accept") = {json}
            /\ HeaderValues(request, "Content-Type")
                   = (IF request.hasBody THEN {json} ELSE {})
            /\ HeaderValues(request, "X-API-Key")
                   = (IF call.apiKey # <<>> THEN {call.apiKey} ELSE {})
            /\ HeaderValues(request, "Authorization")
                   = (IF call.apiKey # <<>>
                      THEN {<<"B","e","a","r","e","r"," ">> \o call.apiKey} ELSE {})

\* C20 witness: a POST with a body and the key k1 carries all four headers
C20_Witness ==
    /\ ExecDone
    /\ call.method = M_POST
    /\ call.apiKey = W_key
    /\ ret.val.request.hasBody
    /\ HeaderValues(ret.val.request, "Content-Type") # {}
    /\ HeaderValues(ret.val.request, "X-API-Key") = {<<"k","1">>}
    /\ HeaderValues(ret.val.request, "Authorization")
           = {<<"B","e","a","r","e","r"," ","k","1">>}

\* C15 (as claimed): a tools/call over HTTP whose upstream response has a
\* status >= 400 is answered with an error HTTP status, never with 200
C15_HTTPStatusMirrorsIsError ==
    (resp.via = "http" /\ resp.endpoint = "tools/call"
        /\ resp.error = "none" /\ resp.upstreamStatus >= 400)
    => resp.status >= 400

\* C17: a tools/call over HTTP that names no operation of the specification
\* is answered with an error naming the tool, issues no upstream request and
\* leaves the server serving
C17_UnknownToolIsError ==
    (resp.via = "http" /\ resp.endpoint = "tools/call"
        /\ resp.name \notin {HTTPNameOf[e] : e \in swagger})
    => /\ resp.status = 500
       /\ resp.error = "tool not found"
       /\ resp.message = <<"t","o","o","l"," ","n","o","t"," ","f","o","u","n","d",":"," ">>
                         \o resp.name
       /\ upstream = {}
       /\ Serving("http")

\* C17 witness: the call for nosuch was answered with "tool not found: nosuch"
C17_Witness ==
    /\ resp.via = "http"
    /\ resp.endpoint = "tools/call"
    /\ resp.name = W_nosuchtool
    /\ resp.status = 500
    /\ resp.message = <<"t","o","o","l"," ","n","o","t"," ","f","o","u","n","d",":"," ",
                        "n","o","s","u","c","h">>
    /\ upstream = {}

\* the arguments a front-end advertises for the operation: name, type and
\* whether required
AdvertisedByStdio(schema) ==
    {[name |-> n, type |-> schema.properties[n].type,
      required |-> n \in Range(schema.required)] : n \in DOMAIN schema.properties}
AdvertisedByHTTP(parameters) ==
    {[name |-> p.name, type |-> p.type, required |-> p.required] :
        p \in Range(parameters)}

\* the response of the HTTP front-end says the invocation is an error
SaysError(response) ==
    /\ response.kind = "object"
    /\ \E i \in 1..Len(response.fields) :
          response.fields[i].key = K_error /\ response.fields[i].value = JBool(TRUE)

\* C16 (as claimed): for the same operation and the same upstream reply both
\* front-ends advertise the same tool name, description and input schema, and
\* give the same outcome (failed alike, isError alike)
C16_FrontEndParity ==
    Done("advertiseAndAnswer") =>
        LET s == ret.val.stdio
            h == ret.val.http
        IN  /\ s.name = h.name
            /\ s.description = h.description
            /\ AdvertisedByStdio(s.inputSchema) = AdvertisedByHTTP(h.parameters)
            /\ s.result.err = h.result.err
            /\ s.result.err = "none" => (s.result.isError = SaysError(h.result.response))

(***************************************************************************)
(* Properties of concurrent invocations.                                   *)
(***************************************************************************)
\* the texts of the argument values of invocation j
ValueTexts(j) == {Sprint(invocations[j].args[k]) : k \in DOMAIN invocations[j].args}

\* the URL an invocation with these arguments asks for on its own
OwnURLs(args) ==
    LET pathURL   == call.apiBaseURL \o FillTemplate(call.path, args)
        queryKeys == DOMAIN args \ ({K_body} \cup TemplateKeys(call.path, args))
    IN  IF call.method \in {M_POST, M_PUT, M_PATCH} \/ queryKeys = {}
        THEN {pathURL}
        ELSE {pathURL \o <<"?">> \o QueryOf(args, order) : order \in OrdersOf(queryKeys)}

\* C13: in every interleaving of concurrent invocations of one tool with
\* distinct path parameters, the request of each invocation has the URL
\* substituted from its own arguments, and neither its URL nor its body
\* contains a value supplied to another invocation
C13_NoCrossContamination ==
    \A i \in DOMAIN invocations :
        invocations[i].request # <<>> =>
            LET request == invocations[i].request[1]
            IN  /\ request.url \in OwnURLs(invocations[i].args)
                /\ \A j \in DOMAIN invocations \ {i} :
                      \A text \in ValueTexts(j) :
                          /\ ~Contains(request.url, text)
                          /\ ~Contains(request.body, text)

\* C13 witness: two invocations in flight at once, each at its own URL
C13_Witness ==
    /\ call.method = M_GET
    /\ invocations[1].pc = "inflight"
    /\ invocations[2].pc = "inflight"
    /\ invocations[1].request[1].url =
           B_api \o <<"/","p","e","t","s","/","a","1","?","f","i","l","t","e","r","=","b","1">>
    /\ invocations[2].request[1].url =
           B_api \o <<"/","p","e","t","s","/","a","2","?","f","i","l","t","e","r","=","b","2">>

\* C18 (as claimed): an invocation, received by either front-end, whose
\* context was cancelled before its upstream call completed ends with an
\* invocation-level failure
C18_CancelEndsInFailure ==
    \A i \in DOMAIN invocations :
        (invocations[i].pc = "done" /\ invocations[i].cancelled)
        => invocations[i].outcome[1].err # "none"

\* the outcome tells its caller that the invocation failed upstream
FlaggedAsError(outcome) ==
    IF call.fn = "createHandler" THEN outcome.isError ELSE SaysError(outcome.response)

IsSkipped(p) ==
    \/ p.In = "cookie"
    \/ p.In = "header" /\ ToLower(p.Name) # <<"c","o","n","t","e","n","t","-","t","y","p","e">>

\* the schema key of a parameter
KeyOf(p) == IF p.In = "body" THEN <<"b","o","d","y">> ELSE p.Name

\* the keys of the required, non-skipped parameters in encounter order
RECURSIVE RequiredKeys(_)
RequiredKeys(params) ==
    IF params = <<>> THEN <<>>
    ELSE (IF Head(params).Required /\ ~IsSkipped(Head(params))
          THEN <<KeyOf(Head(params))>> ELSE <<>>)
         \o RequiredKeys(Tail(params))

\* C21: skipped parameters (cookie; header other than content-type) produce no
\* property, a body parameter is keyed "body", and required holds the keys of
\* exactly the required non-skipped parameters in encounter order, absent when
\* there are none
C21_SchemaKeysAndRequired ==
    Done("buildParametersSchema") =>
        /\ DOMAIN ret.val.properties
               = {KeyOf(p) : p \in {q \in Range(call.params) : ~IsSkipped(q)}}
        /\ ret.val.required = RequiredKeys(call.params)
        /\ ret.val.hasRequired = (RequiredKeys(call.params) # <<>>)

\* C21 witness: a skipped header, a required body parameter named Content-Type
\* keyed body, and required = <<body>>
C21_Witness ==
    /\ Done("buildParametersSchema")
    /\ call.params = <<Parameter(K_id, "header", W_integer, TRUE, FALSE),
                       Parameter(W_ContentType, "body", W_integer, TRUE, FALSE)>>
    /\ DOMAIN ret.val.properties = {K_body}
    /\ ret.val.required = <<K_body>>
    /\ ret.val.hasRequired

\* the Type Mapper
TypeMapper(t) ==
    IF t \in {W_integer, W_number} THEN W_number
    ELSE IF t \in {W_boolean, W_array, W_object} THEN t
    ELSE W_string

\* the parameter a property was built from: the last non-skipped one of its key
SourceOf(params, key) ==
    LET hits == {i \in 1..Len(params) : ~IsSkipped(params[i]) /\ KeyOf(params[i]) = key}
    IN  params[CHOOSE i \in hits : \A j \in hits : j <= i]

OnIDAllowList(f, op) ==
    \E i \in DOMAIN f.IncludeOnlyOperationIDs :
        /\ Len(f.IncludeOnlyOperationIDs[i]) = Len(op.ID)
        /\ \A k \in 1..Len(op.ID) : f.IncludeOnlyOperationIDs[i][k] = op.ID[k]

\* C23: with a non-empty IncludeOnlyOperationIDs an operation whose ID is
\* non-empty and not, case-sensitively, on the list is excluded; one with an
\* empty ID or an ID on the list is excluded only by another rule
C23_AllowListByOperationID ==
    (Done("ShouldExcludeOperation") /\ ~filter.isNil
        /\ filter.IncludeOnlyOperationIDs # <<>>) =>
        /\ (call.op.ID # <<>> /\ ~OnIDAllowList(filter, call.op)) => ret.val = TRUE
        /\ (call.op.ID = <<>> \/ OnIDAllowList(filter, call.op)) =>
              (ret.val = TRUE <=>
                 \/ ~(filter.IncludeOnlyPaths = <<>>
                        \/ call.path \in Range(filter.IncludeOnlyPaths))
                 \/ SomeExcludeRuleMatches(filter, call.method, call.path, call.op))

\* C23 witness: GetUser is excluded by the allow-list <<getUser>>
C23_Witness ==
    /\ Done("ShouldExcludeOperation")
    /\ filter = [EmptyFilter EXCEPT !.IncludeOnlyOperationIDs = <<ID_getUser>>]
    /\ call.op.ID = ID_GetUser
    /\ ret.val = TRUE

(***************************************************************************)
(* Properties of the construction.                                         *)
(***************************************************************************)
\* the configuration New works with
EffectiveConfig == IF call.config.isNil THEN DefaultConfig ELSE call.config

\* the first of the four startup fields that is missing, or "nil"
FirstMissing(config) ==
    LET missing == <<~config.SwaggerSpec /\ config.SwaggerData = "none",
                     config.Name = <<>>, config.Version = <<>>, ~config.Transport>>
        message == <<"either SwaggerSpec or SwaggerData must be provided",
                     "server name cannot be empty",
                     "server version cannot be empty",
                     "transport cannot be nil">>
        hits    == {i \in 1..4 : missing[i]}
    IN  IF hits = {} THEN "nil"
        ELSE message[CHOOSE i \in hits : \A j \in hits : i <= j]

\* C24: New returns an error and no server, with no tool registered, when the
\* configuration lacks both swagger inputs, the name, the version or the
\* transport, reporting the first of these in that order; New(nil) works with
\* DefaultConfig and fails for the missing swagger input; a configuration with
\* name, version, SwaggerSpec and transport passes validation
C24_InvalidConfigurationRejected ==
    Done("New") =>
        /\ FirstMissing(EffectiveConfig) # "nil" =>
              /\ ret.val.err = "invalid configuration"
              /\ ret.val.cause = FirstMissing(EffectiveConfig)
              /\ ret.val.server.isNil
              /\ ret.val.server.tools = {}
        /\ call.config.isNil =>
              /\ ret.val.err = "invalid configuration"
              /\ ret.val.cause = "either SwaggerSpec or SwaggerData must be provided"
        /\ (~call.config.isNil /\ call.config.Name # <<>> /\ call.config.Version # <<>>
              /\ call.config.SwaggerSpec /\ call.config.Transport) =>
              /\ ret.val.err = "nil"
              /\ ~ret.val.server.isNil

\* C24 witness: a configuration without swagger input and without a name is
\* rejected for the swagger input
C24_Witness ==
    /\ Done("New")
    /\ ~call.config.isNil
    /\ ~call.config.SwaggerSpec /\ call.config.SwaggerData = "none"
    /\ call.config.Name = <<>>
    /\ ret.val.cause = "either SwaggerSpec or SwaggerData must be provided"
    /\ ret.val.server.isNil

\* the base URL configured for the started program, and its document
ConfiguredBaseURL ==
    IF call.fn = "main" THEN call.apiBase ELSE EffectiveConfig.APIBaseURL
StartedDocument == IF call.fn = "main" THEN call.doc ELSE EffectiveConfig.doc

\* the start gets as far as the base URL
ReachesBaseURL ==
    \/ Done("main")
    \/ /\ Done("New")
       /\ FirstMissing(EffectiveConfig) = "nil"
       /\ EffectiveConfig.SwaggerSpec \/ EffectiveConfig.SwaggerData = "valid"

\* C25: with no base URL configured and an empty host the start fails and no
\* server is created; a configured base URL is used as given; otherwise the
\* base URL is scheme://host+basePath with the first declared scheme or https
C25_BaseURLRequired ==
    ReachesBaseURL =>
        IF ConfiguredBaseURL # <<>>
        THEN ~ret.val.server.isNil /\ ret.val.server.apiBaseURL = ConfiguredBaseURL
        ELSE IF StartedDocument.Host = <<>>
        THEN ret.val.err # "nil" /\ ret.val.server.isNil
        ELSE /\ ~ret.val.server.isNil
             /\ ret.val.server.apiBaseURL
                  = (IF StartedDocument.Schemes = <<>> THEN <<"h","t","t","p","s">>
                     ELSE Head(StartedDocument.Schemes))
                    \o <<":","/","/">> \o StartedDocument.Host
                    \o StartedDocument.BasePath

(***************************************************************************)
(* Properties of the registered tools.                                     *)
(***************************************************************************)
\* the operations of the specification that are registered: one of the five
\* methods, not excluded by the filter
AcceptedEntries ==
    {e \in swagger \ ExcludedEntries :
        e.method \in {M_GET, M_POST, M_PUT, M_DELETE, M_PATCH}}

\* a comes before b, or is b, in byte order
InOrder(a, b) ==
    \/ \E k \in 1..Len(a) :
          /\ k <= Len(b)
          /\ SubSeq(a, 1, k - 1) = SubSeq(b, 1, k - 1)
          /\ ByteOf(a[k]) < ByteOf(b[k])
    \/ Len(a) <= Len(b) /\ a = SubSeq(b, 1, Len(a))

\* C26 (as claimed): the registered tools are exactly the derived names of the
\* accepted operations, each accepted operation registered once, and ListTools
\* returns exactly these names in ascending order
C26_RegisteredToolsAndListTools ==
    Built =>
        /\ {t.name : t \in tools}
              = {DerivedName(e.method, e.path, e.op.ID) : e \in AcceptedEntries}
        /\ \A e \in AcceptedEntries :
              Cardinality({t \in tools : t.method = e.method /\ t.path = e.path}) = 1
        /\ \A t \in tools : \E e \in AcceptedEntries :
              t.method = e.method /\ t.path = e.path
        /\ resp.via = "lib" =>
              /\ Range(resp.names) = {t.name : t \in tools}
              /\ \A i, j \in DOMAIN resp.names :
                    i < j => InOrder(resp.names[i], resp.names[j])

(***************************************************************************)
(* Properties of the MCP endpoint.                                         *)
(***************************************************************************)
\* the MCP endpoint answered a request by itself
AnsweredByEndpoint == Serving("http") /\ resp.via = "http" /\ resp.endpoint = "/mcp"

\* C27: OPTIONS is answered 200, any other method than POST 405, a body that
\* is not JSON 400, an MCP method other than tools/list and tools/call 400,
\* tools/call without a string name 400; none is dispatched and none sends an
\* upstream request
C27_OnlyPostDispatched ==
    AnsweredByEndpoint =>
        /\ upstream = {}
        /\ resp.request.httpMethod = "OPTIONS" => resp.status = 200
        /\ resp.request.httpMethod \notin {"OPTIONS", "POST"} => resp.status = 405
        /\ resp.request.httpMethod = "POST" =>
              /\ resp.status = 400
              /\ \/ resp.request.body = "not json"
                 \/ resp.request.method \notin {"tools/list", "tools/call"}
                 \/ resp.request.method = "tools/call" /\ resp.request.name # "string"

\* C27 witness: OPTIONS answered 200 with nothing sent upstream
C27_Witness ==
    /\ AnsweredByEndpoint
    /\ resp.request.httpMethod = "OPTIONS"
    /\ resp.status = 200
    /\ upstream = {}

(***************************************************************************)
(* Properties of the body argument and of path substitution.               *)
(***************************************************************************)
\* C28: a "body" argument is neither substituted for a {body} placeholder of
\* the path nor appended to the query string, for any method, and is not
\* among the arguments left after the request is built
C28_BodyNeverPathOrQuery ==
    (ExecDone /\ K_body \in DOMAIN call.args) =>
        LET url == ret.val.request.url
        IN  /\ Contains(call.path, <<"{","b","o","d","y","}">>)
                  => Contains(url, <<"{","b","o","d","y","}">>)
            /\ ~Contains(url, <<"?","b","o","d","y","=">>)
            /\ ~Contains(url, <<"&","b","o","d","y","=">>)
            /\ K_body \notin DOMAIN ret.val.request.params

\* C28 witness: DELETE /i/{body} with a body argument keeps the placeholder
\* and gets no query string
C28_Witness ==
    /\ ExecDone
    /\ call.method = M_DELETE
    /\ call.path = P_itemsBody
    /\ DOMAIN call.args = {K_body}
    /\ call.args[K_body] = V_7
    /\ ret.val.request.url = call.apiBaseURL \o P_itemsBody

\* the URL up to its query string
BeforeQuery(url) ==
    IF Contains(url, <<"?">>)
    THEN SubSeq(url, 1, (CHOOSE i \in 1..Len(url) :
                            url[i] = "?" /\ \A j \in 1..(i - 1) : url[j] # "?") - 1)
    ELSE url

\* C29 (as claimed): a key is substituted and removed exactly when its
\* placeholder occurs in the path template, so that the URL path and the
\* remaining arguments are the same for every iteration order, whatever the
\* values and the base URL contain
C29_SubstitutionByTemplateOnly ==
    ExecDone =>
        /\ DOMAIN ret.val.request.params
              = DOMAIN call.args \ ({K_body} \cup TemplateKeys(call.path, call.args))
        /\ BeforeQuery(ret.val.request.url)
              = call.apiBaseURL \o FillTemplate(call.path, call.args)

(***************************************************************************)
(* Properties of HTTPServer.Start.                                         *)
(***************************************************************************)
StartReturned == httpServer.pc = "returned"

\* Start has not returned while the context is live, unless listening failed
ServesUntilCancelled ==
    /\ (StartReturned /\ httpServer.ctx = "live") =>
          ~httpServer.portFree /\ httpServer.result = "HTTP server error"
    /\ (httpServer.pc = "Serve" /\ httpServer.ctx = "live") => httpServer.listening
    /\ (StartReturned /\ httpServer.result = "nil") =>
          httpServer.inShutdown /\ ~httpServer.listening
    /\ (StartReturned /\ httpServer.result # "nil") => ~httpServer.portFree

\* C30: Start keeps serving until the context is cancelled; once it is
\* cancelled the server is shut down and Start eventually returns, with nil
\* unless listening failed, which is returned as an error
C30_StartReturnsAfterCancel ==
    /\ []ServesUntilCancelled
    /\ (httpServer.pc \notin {"none", "created"} /\ httpServer.ctx = "cancelled")
          ~> (StartReturned /\ (httpServer.result = "nil" \/ ~httpServer.portFree))
    /\ (httpServer.pc = "Serve" /\ httpServer.ctx = "cancelled")
          ~> (StartReturned /\ httpServer.result = "nil" /\ httpServer.inShutdown)

\* C30 witness: Start returned nil after serving a request and being cancelled
C30_Witness ==
    /\ StartReturned
    /\ httpServer.result = "nil"
    /\ httpServer.ctx = "cancelled"
    /\ httpServer.accepted > 0
    /\ httpServer.inShutdown

====
